---- MODULE Spec2Model ----
(***************************************************************************)
(* cleango, package cleaner: the DataFrame table model, its sequential     *)
(* cleaning operations and the worker-pool ("Parallel") variants.          *)
(*                                                                         *)
(* A Go string is modelled as a sequence of one-character strings, so      *)
(* that trimming, case folding, number parsing, splitting and date         *)
(* parsing are computed and not assumed.  Slices and maps are references   *)
(* in Go: header slices, row slices and type maps live in a heap and a     *)
(* DataFrame holds their addresses, so aliasing between frames is visible. *)
(***************************************************************************)
EXTENDS Integers, Sequences, FiniteSets, TLC

\* ---------------------------------------------------------------- bounds
\* Largest number of data rows handed to NewDataFrame.
MaxRows == 2
\* Largest value passed to WithMaxWorkers.
MaxWorkersOpt == 2
\* Largest number of operations a caller chains on one table.
MaxOps == 2
\* Largest number of processors handed to BatchProcessParallel.
MaxProcs == 2

\* ------------------------------------------------------- scalar utilities
Range(s) == {s[i] : i \in DOMAIN s}

Min(S) == CHOOSE x \in S : \A y \in S : x <= y

Digits == {"0", "1", "2", "3", "4", "5", "6", "7", "8", "9"}

IsSpace(c) == c \in {" ", "\t"}

RECURSIVE TrimLeft(_)
TrimLeft(s) == IF s # <<>> /\ IsSpace(Head(s)) THEN TrimLeft(Tail(s)) ELSE s

RECURSIVE TrimRight(_)
TrimRight(s) ==
    IF s # <<>> /\ IsSpace(s[Len(s)]) THEN TrimRight(SubSeq(s, 1, Len(s) - 1)) ELSE s

\* strings.TrimSpace
TrimSpace(s) == TrimRight(TrimLeft(s))

\* trimSpace: the utility the parallel closures call.
trimSpace(s) == TrimSpace(s)

UpperChar(c) ==
    CASE c = "a" -> "A" [] c = "b" -> "B" [] c = "c" -> "C" [] OTHER -> c

LowerChar(c) ==
    CASE c = "A" -> "a" [] c = "B" -> "b" [] c = "C" -> "c" [] OTHER -> c

\* A mapping that swaps the case of every letter.
ToUpperSwap(s) ==
    [i \in 1..Len(s) |-> IF UpperChar(s[i]) # s[i] THEN UpperChar(s[i]) ELSE LowerChar(s[i])]

\* strings.ToUpper, strings.ToLower
ToUpper(s) == [i \in 1..Len(s) |-> UpperChar(s[i])]

ToLower(s) == [i \in 1..Len(s) |-> LowerChar(s[i])]

toUpperCase(s) == ToUpper(s)

toLowerCase(s) == ToLower(s)

DigitValue(c) ==
    CASE c = "0" -> 0 [] c = "1" -> 1 [] c = "2" -> 2 [] c = "3" -> 3 [] c = "4" -> 4
      [] c = "5" -> 5 [] c = "6" -> 6 [] c = "7" -> 7 [] c = "8" -> 8 [] c = "9" -> 9

DigitChar(d) ==
    CASE d = 0 -> "0" [] d = 1 -> "1" [] d = 2 -> "2" [] d = 3 -> "3" [] d = 4 -> "4"
      [] d = 5 -> "5" [] d = 6 -> "6" [] d = 7 -> "7" [] d = 8 -> "8" [] d = 9 -> "9"

AllDigits(s) == s # <<>> /\ \A i \in 1..Len(s) : s[i] \in Digits

RECURSIVE DecValue(_)
DecValue(s) ==
    IF s = <<>> THEN 0
    ELSE 10 * DecValue(SubSeq(s, 1, Len(s) - 1)) + DigitValue(s[Len(s)])

\* strconv.ParseFloat(s, 64) on the strings of the model: an optional minus
\* sign and decimal digits.  (The cell alphabet holds no '.', '+', '_',
\* exponent, "inf" or "nan" letters, so nothing else parses.)
ParseFloat(s) ==
    IF AllDigits(s) THEN [ok |-> TRUE, val |-> DecValue(s)]
    ELSE IF s # <<>> /\ Head(s) = "-" /\ AllDigits(Tail(s))
         THEN [ok |-> TRUE, val |-> 0 - DecValue(Tail(s))]
         ELSE [ok |-> FALSE, val |-> 0]

\* A parseFloat that does not trim.
parseFloatNoTrim(s) == ParseFloat(s)

parseFloat(s) == ParseFloat(TrimSpace(s))

\* A compiled pattern of the form [class] or [^class]; valid = FALSE is a
\* pattern regexp.Compile rejects.
PatNonDigit == [src |-> "[^0-9]", valid |-> TRUE, neg |-> TRUE, class |-> Digits]

PatSpace == [src |-> "[ ]", valid |-> TRUE, neg |-> FALSE, class |-> {" "}]

PatBad == [src |-> "[", valid |-> FALSE, neg |-> FALSE, class |-> {}]

compileRegex(pattern) == pattern.valid

Matches(re, c) == (c \in re.class) # re.neg

RECURSIVE ReplaceAllString(_, _, _)
ReplaceAllString(re, s, repl) ==
    IF s = <<>> THEN <<>>
    ELSE (IF Matches(re, Head(s)) THEN repl ELSE <<Head(s)>>)
         \o ReplaceAllString(re, Tail(s), repl)

\* strings.Index, 1-based; 0 when sep does not occur.
IndexOf(s, sep) ==
    LET hits == {i \in 1..(Len(s) - Len(sep) + 1) : SubSeq(s, i, i + Len(sep) - 1) = sep}
    IN  IF hits = {} THEN 0 ELSE Min(hits)

\* strings.Split(s, sep)
RECURSIVE Split(_, _)
Split(s, sep) ==
    IF sep = <<>> THEN [i \in 1..Len(s) |-> <<s[i]>>]
    ELSE LET i == IndexOf(s, sep)
         IN  IF i = 0 THEN <<s>>
             ELSE <<SubSeq(s, 1, i - 1)>> \o Split(SubSeq(s, i + Len(sep), Len(s)), sep)

\* ------------------------------------------------------------ package time
\* A layout is a sequence of elements: the reference-time fields "2006",
\* "01", "02", "15", "04", "05", the zone element "Z07:00", and literal
\* characters.
LayoutISO == <<"2006", "-", "01", "-", "02">>

LayoutDMY == <<"02", "/", "01", "/", "2006">>

LayoutMDY == <<"01", "/", "02", "/", "2006">>

RFC3339 ==
    <<"2006", "-", "01", "-", "02", "T", "15", ":", "04", ":", "05", "Z07:00">>

ZeroTime == [Y |-> 0, M |-> 1, D |-> 1, h |-> 0, m |-> 0, s |-> 0, z |-> 0]

IsLeap(y) == y % 4 = 0 /\ (y % 100 # 0 \/ y % 400 = 0)

DaysIn(mo, y) ==
    IF mo = 2 THEN (IF IsLeap(y) THEN 29 ELSE 28)
    ELSE IF mo \in {4, 6, 9, 11} THEN 30 ELSE 31

\* Two decimal digits at the head of value, or -1.
TwoDigits(value) ==
    IF Len(value) >= 2 /\ value[1] \in Digits /\ value[2] \in Digits
    THEN 10 * DigitValue(value[1]) + DigitValue(value[2])
    ELSE 0 - 1

\* time.Parse(layout, value): [ok, t].
RECURSIVE ParseElems(_, _, _)
ParseElems(layout, value, t) ==
    IF layout = <<>>
    THEN [ok |-> value = <<>> /\ t.D >= 1 /\ t.D <= DaysIn(t.M, t.Y), t |-> t]
    ELSE
      LET e == Head(layout)
          n == TwoDigits(value)
          rest2 == SubSeq(value, 3, Len(value))
          fail == [ok |-> FALSE, t |-> ZeroTime]
      IN  CASE e = "2006" ->
                 IF Len(value) >= 4 /\ AllDigits(SubSeq(value, 1, 4))
                 THEN ParseElems(Tail(layout), SubSeq(value, 5, Len(value)),
                                 [t EXCEPT !.Y = DecValue(SubSeq(value, 1, 4))])
                 ELSE fail
            [] e = "01" ->
                 IF n >= 1 /\ n <= 12
                 THEN ParseElems(Tail(layout), rest2, [t EXCEPT !.M = n]) ELSE fail
            [] e = "02" ->
                 IF n >= 0
                 THEN ParseElems(Tail(layout), rest2, [t EXCEPT !.D = n]) ELSE fail
            [] e = "15" ->
                 IF n >= 0 /\ n < 24
                 THEN ParseElems(Tail(layout), rest2, [t EXCEPT !.h = n]) ELSE fail
            [] e = "04" ->
                 IF n >= 0 /\ n < 60
                 THEN ParseElems(Tail(layout), rest2, [t EXCEPT !.m = n]) ELSE fail
            [] e = "05" ->
                 IF n >= 0 /\ n < 60
                 THEN ParseElems(Tail(layout), rest2, [t EXCEPT !.s = n]) ELSE fail
            [] e = "Z07:00" ->
                 IF value # <<>> /\ Head(value) = "Z"
                 THEN ParseElems(Tail(layout), Tail(value), t)
                 ELSE IF Len(value) >= 6 /\ value[1] \in {"+", "-"} /\ value[4] = ":"
                         /\ TwoDigits(SubSeq(value, 2, 3)) >= 0
                         /\ TwoDigits(SubSeq(value, 5, 6)) >= 0
                      THEN ParseElems(Tail(layout), SubSeq(value, 7, Len(value)),
                             [t EXCEPT !.z = (IF value[1] = "-" THEN 0 - 1 ELSE 1)
                                 * (60 * TwoDigits(SubSeq(value, 2, 3))
                                    + TwoDigits(SubSeq(value, 5, 6)))])
                      ELSE fail
            [] OTHER ->
                 IF value # <<>> /\ Head(value) = e
                 THEN ParseElems(Tail(layout), Tail(value), t) ELSE fail

TimeParse(layout, value) == ParseElems(layout, value, ZeroTime)

Pad2(n) == <<DigitChar(n \div 10), DigitChar(n % 10)>>

Pad4(n) ==
    <<DigitChar((n \div 1000) % 10), DigitChar((n \div 100) % 10),
      DigitChar((n \div 10) % 10), DigitChar(n % 10)>>

AbsInt(n) == IF n < 0 THEN 0 - n ELSE n

\* Time.Format(layout)
RECURSIVE TimeFormat(_, _)
TimeFormat(t, layout) ==
    IF layout = <<>> THEN <<>>
    ELSE LET e == Head(layout)
         IN  (CASE e = "2006" -> Pad4(t.Y)
                [] e = "01" -> Pad2(t.M)
                [] e = "02" -> Pad2(t.D)
                [] e = "15" -> Pad2(t.h)
                [] e = "04" -> Pad2(t.m)
                [] e = "05" -> Pad2(t.s)
                [] e = "Z07:00" ->
                     IF t.z = 0 THEN <<"Z">>
                     ELSE <<IF t.z < 0 THEN "-" ELSE "+">> \o Pad2(AbsInt(t.z) \div 60)
                          \o <<":">> \o Pad2(AbsInt(t.z) % 60)
                [] OTHER -> <<e>>)
             \o TimeFormat(t, Tail(layout))

\* ------------------------------------------------------------------ heap
\* h.hdr, h.row, h.typ: the storage of header slices, row slices and type
\* maps, indexed by address; h.frm: the DataFrame structs, each holding the
\* addresses of its Headers, of the rows of its Data, and of its Types.
Nil == 0

EmptyHeap == [hdr |-> <<>>, row |-> <<>>, typ |-> <<>>, frm |-> <<>>]

TypeString == "string"

TypeDate == "date"

NoErr == [kind |-> "nil"]

ErrEmptyHeaders == [kind |-> "headers cannot be empty"]

ErrShape(i, got, expected) ==
    [kind |-> "incompatible number of columns", row |-> i, got |-> got,
     expected |-> expected]

\* fmt.Errorf("%w: %s", ErrColumnNotFound, column) of the parallel operations.
ErrColumnNotFound(column) ==
    [kind |-> "column not found", column |-> column, wraps |-> "ErrColumnNotFound"]

\* fmt.Errorf("column not found: %s", column) of the sequential operations:
\* the same text, wrapping nothing.
ErrorfColumnNotFound(column) ==
    [kind |-> "column not found", column |-> column, wraps |-> "none"]

ErrColumnExists(column) == [kind |-> "column already exists", column |-> column]

ErrNoNewColumns == [kind |-> "at least one new column name must be specified"]

ErrDateFormat(i, column, raw) ==
    [kind |-> "date format not found", row |-> i, column |-> column, raw |-> raw]

ErrConversion(raw) == [kind |-> "conversion error", raw |-> raw]

ErrInvalidRegex(pattern) == [kind |-> "invalid regex", pattern |-> pattern.src]

\* The error of compileRegex.
ErrInvalidRegexPattern(pattern) ==
    [kind |-> "invalid regex pattern", pattern |-> pattern.src]

\* What a call returns: the heap it leaves, the *DataFrame and the error.
Ret(h, f, e) == [h |-> h, df |-> f, err |-> e]

Headers(h, f) == h.hdr[h.frm[f].Headers]

Data(h, f) == [i \in 1..Len(h.frm[f].Data) |-> h.row[h.frm[f].Data[i]]]

Types(h, f) == h.typ[h.frm[f].Types]

\* The table a frame denotes, as a value.
Table(h, f) == [headers |-> Headers(h, f), rows |-> Data(h, f), types |-> Types(h, f)]

MapPut(m, k, v) == [x \in DOMAIN m \cup {k} |-> IF x = k THEN v ELSE m[x]]

MapDelete(m, k) == [x \in DOMAIN m \ {k} |-> m[x]]

\* A lookup that returns the last header equal to column.
getColumnIndexLast(h, f, column) ==
    LET hs == Headers(h, f)
        hits == {i \in 1..Len(hs) : hs[i] = column}
    IN  IF hits = {} THEN 0 - 1 ELSE (CHOOSE i \in hits : \A k \in hits : k <= i) - 1

\* 0-based position of the first header equal to column, -1 when absent.
getColumnIndex(h, f, column) ==
    LET hs == Headers(h, f)
        hits == {i \in 1..Len(hs) : hs[i] = column}
    IN  IF hits = {} THEN 0 - 1 ELSE Min(hits) - 1

\* A NewDataFrame that reports the last row of the wrong width.
NewDataFrameLastBad(h, headers, data) ==
    LET width == Len(h.hdr[headers])
        bad == {i \in 1..Len(data) : Len(h.row[data[i]]) # width}
        last == CHOOSE i \in bad : \A k \in bad : k <= i
    IN  IF width = 0 THEN Ret(h, Nil, ErrEmptyHeaders)
        ELSE IF bad # {}
             THEN Ret(h, Nil, ErrShape(last - 1, Len(h.row[data[last]]), width))
             ELSE LET types == [x \in Range(h.hdr[headers]) |-> TypeString]
                      h1 == [h EXCEPT !.typ = Append(@, types)]
                      h2 == [h1 EXCEPT !.frm = Append(@,
                                 [Headers |-> headers, Data |-> data,
                                  Types |-> Len(h1.typ)])]
                  IN  Ret(h2, Len(h2.frm), NoErr)

\* NewDataFrame(headers, data): headers is the address of the caller's
\* header slice, data the addresses of the caller's rows; both are stored,
\* not copied.
NewDataFrame(h, headers, data) ==
    LET width == Len(h.hdr[headers])
        bad == {i \in 1..Len(data) : Len(h.row[data[i]]) # width}
    IN  IF width = 0 THEN Ret(h, Nil, ErrEmptyHeaders)
        ELSE IF bad # {}
             THEN Ret(h, Nil, ErrShape(Min(bad) - 1, Len(h.row[data[Min(bad)]]), width))
             ELSE LET types == [x \in Range(h.hdr[headers]) |-> TypeString]
                      h1 == [h EXCEPT !.typ = Append(@, types)]
                      h2 == [h1 EXCEPT !.frm = Append(@,
                                 [Headers |-> headers, Data |-> data,
                                  Types |-> Len(h1.typ)])]
                  IN  Ret(h2, Len(h2.frm), NoErr)

RECURSIVE TrimColumnsLoop(_, _, _)
TrimColumnsLoop(h, data, i) ==
    IF i > Len(data) THEN h
    ELSE TrimColumnsLoop(
           [h EXCEPT !.row[data[i]] = [j \in 1..Len(h.row[data[i]]) |->
                                          TrimSpace(h.row[data[i]][j])]],
           data, i + 1)

TrimColumns(h, f) == Ret(TrimColumnsLoop(h, h.frm[f].Data, 1), f, NoErr)

\* A loop that stops at the first empty cell it has filled.
RECURSIVE ReplaceNullsLoopOnce(_, _, _, _, _)
ReplaceNullsLoopOnce(h, data, col, defaultValue, i) ==
    IF i > Len(data) THEN h
    ELSE IF h.row[data[i]][col + 1] = <<>>
         THEN [h EXCEPT !.row[data[i]][col + 1] = defaultValue]
         ELSE ReplaceNullsLoopOnce(h, data, col, defaultValue, i + 1)

RECURSIVE ReplaceNullsLoop(_, _, _, _, _)
ReplaceNullsLoop(h, data, col, defaultValue, i) ==
    IF i > Len(data) THEN h
    ELSE ReplaceNullsLoop(
           IF h.row[data[i]][col + 1] = <<>>
           THEN [h EXCEPT !.row[data[i]][col + 1] = defaultValue] ELSE h,
           data, col, defaultValue, i + 1)

ReplaceNulls(h, f, column, defaultValue) ==
    LET colIndex == getColumnIndex(h, f, column)
    IN  IF colIndex = 0 - 1 THEN Ret(h, Nil, ErrorfColumnNotFound(column))
        ELSE Ret(ReplaceNullsLoop(h, h.frm[f].Data, colIndex, defaultValue, 1), f, NoErr)

\* A layout chain that tries month-first before day-first.
CleanDatesParseMonthFirst(value) ==
    LET t1 == TimeParse(RFC3339, value)
        t2 == TimeParse(LayoutISO, value)
        t3 == TimeParse(LayoutMDY, value)
        t4 == TimeParse(LayoutDMY, value)
    IN  IF t1.ok THEN t1 ELSE IF t2.ok THEN t2 ELSE IF t3.ok THEN t3 ELSE t4

\* The layout chain of CleanDates: RFC3339, then three date layouts.
CleanDatesParse(value) ==
    LET t1 == TimeParse(RFC3339, value)
        t2 == TimeParse(LayoutISO, value)
        t3 == TimeParse(LayoutDMY, value)
        t4 == TimeParse(LayoutMDY, value)
    IN  IF t1.ok THEN t1 ELSE IF t2.ok THEN t2 ELSE IF t3.ok THEN t3 ELSE t4

\* The row loop of CleanDates; stops at the first cell no layout parses.
RECURSIVE CleanDatesLoop(_, _, _, _, _, _)
CleanDatesLoop(h, data, col, column, layout, i) ==
    IF i > Len(data) THEN Ret(h, Nil, NoErr)
    ELSE LET cell == h.row[data[i]][col + 1]
             p == CleanDatesParse(cell)
         IN  IF cell = <<>> THEN CleanDatesLoop(h, data, col, column, layout, i + 1)
             ELSE IF ~p.ok THEN Ret(h, Nil, ErrDateFormat(i - 1, column, cell))
                  ELSE CleanDatesLoop(
                         [h EXCEPT !.row[data[i]][col + 1] = TimeFormat(p.t, layout)],
                         data, col, column, layout, i + 1)

\* A CleanDates that tags the column before it has parsed the cells.
CleanDatesTagFirst(h, f, column, layout) ==
    LET colIndex == getColumnIndex(h, f, column)
        tagged == [h EXCEPT !.typ[h.frm[f].Types] = MapPut(@, column, TypeDate)]
        r == CleanDatesLoop(tagged, h.frm[f].Data, colIndex, column, layout, 1)
    IN  IF colIndex = 0 - 1 THEN Ret(h, Nil, ErrorfColumnNotFound(column))
        ELSE IF r.err # NoErr THEN r
             ELSE Ret(r.h, f, NoErr)

CleanDates(h, f, column, layout) ==
    LET colIndex == getColumnIndex(h, f, column)
        r == CleanDatesLoop(h, h.frm[f].Data, colIndex, column, layout, 1)
    IN  IF colIndex = 0 - 1 THEN Ret(h, Nil, ErrorfColumnNotFound(column))
        ELSE IF r.err # NoErr THEN r
             ELSE Ret([r.h EXCEPT !.typ[h.frm[f].Types] = MapPut(@, column, TypeDate)],
                      f, NoErr)

RECURSIVE NormalizeCaseLoop(_, _, _, _, _)
NormalizeCaseLoop(h, data, col, toUpper, i) ==
    IF i > Len(data) THEN h
    ELSE NormalizeCaseLoop(
           [h EXCEPT !.row[data[i]][col + 1] =
               IF toUpper THEN ToUpper(@) ELSE ToLower(@)],
           data, col, toUpper, i + 1)

NormalizeCase(h, f, column, toUpper) ==
    LET colIndex == getColumnIndex(h, f, column)
    IN  IF colIndex = 0 - 1 THEN Ret(h, Nil, ErrorfColumnNotFound(column))
        ELSE Ret(NormalizeCaseLoop(h, h.frm[f].Data, colIndex, toUpper, 1), f, NoErr)

RenameColumn(h, f, oldName, newName) ==
    LET colIndex == getColumnIndex(h, f, oldName)
        types == Types(h, f)
    IN  IF colIndex = 0 - 1 THEN Ret(h, Nil, ErrorfColumnNotFound(oldName))
        ELSE IF getColumnIndex(h, f, newName) # 0 - 1
             THEN Ret(h, Nil, ErrColumnExists(newName))
             ELSE Ret([h EXCEPT !.hdr[h.frm[f].Headers][colIndex + 1] = newName,
                                !.typ[h.frm[f].Types] =
                                    IF oldName \in DOMAIN types
                                    THEN MapDelete(MapPut(types, newName, types[oldName]),
                                                   oldName)
                                    ELSE types],
                      f, NoErr)

RECURSIVE CleanWithRegexLoop(_, _, _, _, _, _)
CleanWithRegexLoop(h, data, col, re, replacement, i) ==
    IF i > Len(data) THEN h
    ELSE CleanWithRegexLoop(
           [h EXCEPT !.row[data[i]][col + 1] = ReplaceAllString(re, @, replacement)],
           data, col, re, replacement, i + 1)

CleanWithRegex(h, f, column, pattern, replacement) ==
    LET colIndex == getColumnIndex(h, f, column)
    IN  IF colIndex = 0 - 1 THEN Ret(h, Nil, ErrorfColumnNotFound(column))
        ELSE IF ~pattern.valid THEN Ret(h, Nil, ErrInvalidRegex(pattern))
             ELSE Ret(CleanWithRegexLoop(h, h.frm[f].Data, colIndex, pattern,
                                         replacement, 1), f, NoErr)

\* A SplitParts that keeps every part and pads nothing.
SplitPartsAll(cell, separator, n) == Split(cell, separator)

\* The cells that replace cell colIndex of one row in SplitColumn.
SplitParts(cell, separator, n) ==
    LET parts == Split(cell, separator)
    IN  [k \in 1..n |-> IF k <= Len(parts) THEN parts[k] ELSE <<>>]

\* A row builder that puts the new cells after the last cell.
SplitRowAppend(row, col, separator, n) ==
    SubSeq(row, 1, col) \o SubSeq(row, col + 2, Len(row))
        \o SplitParts(row[col + 1], separator, n)

SplitRow(row, col, separator, n) ==
    SubSeq(row, 1, col) \o SplitParts(row[col + 1], separator, n)
        \o SubSeq(row, col + 2, Len(row))

\* A SplitColumn that lets a new column take the name of the split column.
SplitColumnAllowOwnName(h, f, column, separator, newColumns) ==
    LET colIndex == getColumnIndex(h, f, column)
        hs == Headers(h, f)
        data == h.frm[f].Data
        clash == {k \in 1..Len(newColumns) :
                     /\ newColumns[k] # column
                     /\ getColumnIndex(h, f, newColumns[k]) # 0 - 1}
        newHeaders == SubSeq(hs, 1, colIndex) \o newColumns
                          \o SubSeq(hs, colIndex + 2, Len(hs))
        newRows == [i \in 1..Len(data) |->
                       SplitRow(h.row[data[i]], colIndex, separator, Len(newColumns))]
        kept == MapDelete(Types(h, f), column)
        newTypes == [x \in DOMAIN kept \cup Range(newColumns) |->
                        IF x \in Range(newColumns) THEN TypeString ELSE kept[x]]
        base == Len(h.row)
    IN  IF colIndex = 0 - 1 THEN Ret(h, Nil, ErrorfColumnNotFound(column))
        ELSE IF Len(newColumns) = 0 THEN Ret(h, Nil, ErrNoNewColumns)
        ELSE IF clash # {} THEN Ret(h, Nil, ErrColumnExists(newColumns[Min(clash)]))
        ELSE Ret([hdr |-> Append(h.hdr, newHeaders),
                  row |-> h.row \o newRows,
                  typ |-> Append(h.typ, newTypes),
                  frm |-> [h.frm EXCEPT ![f] =
                              [Headers |-> Len(h.hdr) + 1,
                               Data |-> [i \in 1..Len(data) |-> base + i],
                               Types |-> Len(h.typ) + 1]]],
                 f, NoErr)

SplitColumn(h, f, column, separator, newColumns) ==
    LET colIndex == getColumnIndex(h, f, column)
        hs == Headers(h, f)
        data == h.frm[f].Data
        clash == {k \in 1..Len(newColumns) : getColumnIndex(h, f, newColumns[k]) # 0 - 1}
        newHeaders == SubSeq(hs, 1, colIndex) \o newColumns
                          \o SubSeq(hs, colIndex + 2, Len(hs))
        newRows == [i \in 1..Len(data) |->
                       SplitRow(h.row[data[i]], colIndex, separator, Len(newColumns))]
        kept == MapDelete(Types(h, f), column)
        newTypes == [x \in DOMAIN kept \cup Range(newColumns) |->
                        IF x \in Range(newColumns) THEN TypeString ELSE kept[x]]
        base == Len(h.row)
    IN  IF colIndex = 0 - 1 THEN Ret(h, Nil, ErrorfColumnNotFound(column))
        ELSE IF Len(newColumns) = 0 THEN Ret(h, Nil, ErrNoNewColumns)
        ELSE IF clash # {} THEN Ret(h, Nil, ErrColumnExists(newColumns[Min(clash)]))
        ELSE Ret([hdr |-> Append(h.hdr, newHeaders),
                  row |-> h.row \o newRows,
                  typ |-> Append(h.typ, newTypes),
                  frm |-> [h.frm EXCEPT ![f] =
                              [Headers |-> Len(h.hdr) + 1,
                               Data |-> [i \in 1..Len(data) |-> base + i],
                               Types |-> Len(h.typ) + 1]]],
                 f, NoErr)

\* A row loop whose bounds are exclusive.
RECURSIVE FilterOutliersLoopExclusive(_, _, _, _, _, _, _)
FilterOutliersLoopExclusive(h, data, col, min, max, i, filteredData) ==
    IF i > Len(data) THEN [err |-> NoErr, filteredData |-> filteredData]
    ELSE LET cell == h.row[data[i]][col + 1]
             v == ParseFloat(cell)
         IN  IF cell = <<>>
             THEN FilterOutliersLoopExclusive(h, data, col, min, max, i + 1,
                                              Append(filteredData, data[i]))
             ELSE IF ~v.ok THEN [err |-> ErrConversion(cell), filteredData |-> <<>>]
             ELSE FilterOutliersLoopExclusive(h, data, col, min, max, i + 1,
                    IF v.val > min /\ v.val < max
                    THEN Append(filteredData, data[i]) ELSE filteredData)

\* The row loop of FilterOutliers: the addresses kept so far, or the error.
RECURSIVE FilterOutliersLoop(_, _, _, _, _, _, _)
FilterOutliersLoop(h, data, col, min, max, i, filteredData) ==
    IF i > Len(data) THEN [err |-> NoErr, filteredData |-> filteredData]
    ELSE LET cell == h.row[data[i]][col + 1]
             v == ParseFloat(cell)
         IN  IF cell = <<>>
             THEN FilterOutliersLoop(h, data, col, min, max, i + 1,
                                     Append(filteredData, data[i]))
             ELSE IF ~v.ok THEN [err |-> ErrConversion(cell), filteredData |-> <<>>]
             ELSE FilterOutliersLoop(h, data, col, min, max, i + 1,
                    IF v.val >= min /\ v.val <= max
                    THEN Append(filteredData, data[i]) ELSE filteredData)

\* A FilterOutliers that stores what it has kept before it reports the
\* conversion error.
FilterOutliersStoreFirst(h, f, column, min, max) ==
    LET colIndex == getColumnIndex(h, f, column)
        r == FilterOutliersLoop(h, h.frm[f].Data, colIndex, min, max, 1, <<>>)
    IN  IF colIndex = 0 - 1 THEN Ret(h, Nil, ErrorfColumnNotFound(column))
        ELSE IF r.err # NoErr
             THEN Ret([h EXCEPT !.frm[f].Data = r.filteredData], Nil, r.err)
             ELSE Ret([h EXCEPT !.frm[f].Data = r.filteredData], f, NoErr)

FilterOutliers(h, f, column, min, max) ==
    LET colIndex == getColumnIndex(h, f, column)
        r == FilterOutliersLoop(h, h.frm[f].Data, colIndex, min, max, 1, <<>>)
    IN  IF colIndex = 0 - 1 THEN Ret(h, Nil, ErrorfColumnNotFound(column))
        ELSE IF r.err # NoErr THEN Ret(h, Nil, r.err)
             ELSE Ret([h EXCEPT !.frm[f].Data = r.filteredData], f, NoErr)

\* A Copy that shares the rows of the receiver.
CopyShallow(h, f) ==
    Ret([h EXCEPT !.hdr = Append(@, Headers(h, f)),
                  !.typ = Append(@, Types(h, f)),
                  !.frm = Append(@, [Headers |-> Len(h.hdr) + 1, Data |-> h.frm[f].Data,
                                     Types |-> Len(h.typ) + 1])],
        Len(h.frm) + 1, NoErr)

\* Copy: new rows, a new header slice and a new type map, in a new frame.
Copy(h, f) ==
    LET data == h.frm[f].Data
        base == Len(h.row)
    IN  Ret([hdr |-> Append(h.hdr, Headers(h, f)),
             row |-> h.row \o [i \in 1..Len(data) |-> h.row[data[i]]],
             typ |-> Append(h.typ, Types(h, f)),
             frm |-> Append(h.frm,
                        [Headers |-> Len(h.hdr) + 1,
                         Data |-> [i \in 1..Len(data) |-> base + i],
                         Types |-> Len(h.typ) + 1])],
            Len(h.frm) + 1, NoErr)

\* ------------------------------------------------------- parallel options
\* An option that also accepts zero.
WithMaxWorkersNonNegative(o, maxWorkers) == IF maxWorkers >= 0 THEN maxWorkers ELSE o

\* WithMaxWorkers(maxWorkers) applied to an options value whose MaxWorkers
\* is o: the new MaxWorkers.
WithMaxWorkers(o, maxWorkers) == IF maxWorkers > 0 THEN maxWorkers ELSE o

\* defaultParallelOptions() followed by the options in order; numCPU is the
\* host's runtime.NumCPU().
RECURSIVE ApplyOptions(_, _)
ApplyOptions(o, options) ==
    IF options = <<>> THEN o
    ELSE ApplyOptions(WithMaxWorkers(o, Head(options)), Tail(options))

\* A worker count that is not capped by the number of jobs.
NumWorkersUncapped(maxWorkers, njobs) == maxWorkers

NumWorkers(maxWorkers, njobs) == IF maxWorkers > njobs THEN njobs ELSE maxWorkers

\* ------------------------------------------------ processors of the workers
\* The closure of TrimColumnsParallel, on the row stored at address a.
TrimRowProcessor(h, a) ==
    [h EXCEPT !.row[a] = [i \in 1..Len(h.row[a]) |-> trimSpace(h.row[a][i])]]

\* The closure of ReplaceNullsParallel.
ReplaceNullsProcessor(h, a, colIdx, defaultValue) ==
    IF h.row[a][colIdx + 1] = <<>> THEN [h EXCEPT !.row[a][colIdx + 1] = defaultValue]
    ELSE h

\* The layouts parseDate tries, in order.  (The RFC1123, RFC822, ANSIC,
\* UnixDate and RubyDate layouts need month and weekday names, which the
\* cell alphabet cannot spell; RFC3339Nano parses what RFC3339 parses.)
ParseDateFormats(layout) ==
    <<layout,
      <<"2006", "-", "01", "-", "02">>,
      <<"2006", "/", "01", "/", "02">>,
      <<"02", "-", "01", "-", "2006">>,
      <<"02", "/", "01", "/", "2006">>,
      <<"01", "-", "02", "-", "2006">>,
      <<"01", "/", "02", "/", "2006">>,
      <<"2006", "-", "01", "-", "02", " ", "15", ":", "04", ":", "05">>,
      <<"2006", "/", "01", "/", "02", " ", "15", ":", "04", ":", "05">>,
      <<"02", "-", "01", "-", "2006", " ", "15", ":", "04", ":", "05">>,
      <<"02", "/", "01", "/", "2006", " ", "15", ":", "04", ":", "05">>,
      <<"01", "-", "02", "-", "2006", " ", "15", ":", "04", ":", "05">>,
      <<"01", "/", "02", "/", "2006", " ", "15", ":", "04", ":", "05">>,
      RFC3339>>

RECURSIVE ParseFirst(_, _)
ParseFirst(formats, s) ==
    IF formats = <<>> THEN [ok |-> FALSE, t |-> ZeroTime]
    ELSE LET p == TimeParse(Head(formats), s)
         IN  IF p.ok THEN p ELSE ParseFirst(Tail(formats), s)

parseDate(s, layout) == ParseFirst(ParseDateFormats(layout), s)

\* A closure that empties the cell it cannot parse.
CleanDatesProcessorBlank(h, a, colIdx, layout) ==
    LET cell == h.row[a][colIdx + 1]
        p == parseDate(cell, layout)
    IN  IF cell = <<>> THEN h
        ELSE IF ~p.ok THEN [h EXCEPT !.row[a][colIdx + 1] = <<>>]
        ELSE [h EXCEPT !.row[a][colIdx + 1] = TimeFormat(p.t, layout)]

\* The closure of CleanDatesParallel.
CleanDatesProcessor(h, a, colIdx, layout) ==
    LET cell == h.row[a][colIdx + 1]
        p == parseDate(cell, layout)
    IN  IF cell = <<>> \/ ~p.ok THEN h
        ELSE [h EXCEPT !.row[a][colIdx + 1] = TimeFormat(p.t, layout)]

\* The closure of NormalizeCaseParallel.
NormalizeCaseProcessor(h, a, colIdx, toUpper) ==
    [h EXCEPT !.row[a][colIdx + 1] =
        IF toUpper THEN toUpperCase(@) ELSE toLowerCase(@)]

\* The closure of CleanWithRegexParallel.
CleanWithRegexProcessor(h, a, colIdx, re, replacement) ==
    [h EXCEPT !.row[a][colIdx + 1] = ReplaceAllString(re, @, replacement)]

\* A worker body that discards empty cells.
FilterKeepDropEmpty(value, min, max) ==
    LET num == parseFloat(value)
    IN  IF value = <<>> THEN FALSE
        ELSE IF ~num.ok THEN TRUE
        ELSE num.val >= min /\ num.val <= max

\* The worker body of FilterOutliersParallel: keep or discard one cell.
FilterKeep(value, min, max) ==
    LET num == parseFloat(value)
    IN  IF value = <<>> THEN TRUE
        ELSE IF ~num.ok THEN TRUE
        ELSE num.val >= min /\ num.val <= max

\* A processor handed to BatchProcessParallel is one of the table
\* operations, applied to the frame it receives.
ApplyProcessor(h, f, p) ==
    CASE p.op = "TrimColumns" -> TrimColumns(h, f)
      [] p.op = "ReplaceNulls" -> ReplaceNulls(h, f, p.column, p.value)
      [] p.op = "NormalizeCase" -> NormalizeCase(h, f, p.column, p.toUpper)
      [] p.op = "RenameColumn" -> RenameColumn(h, f, p.column, p.newName)
      [] p.op = "CleanDates" -> CleanDates(h, f, p.column, p.layout)
      [] p.op = "FilterOutliers" -> FilterOutliers(h, f, p.column, p.min, p.max)

\* ----------------------------------------------------------------- state
VARIABLES
    heap,           \* the storage of slices, maps and DataFrame structs
    pc,             \* the caller: "idle" between calls, "send" while the
                    \* driver sends jobs, "collect" while it ranges over results
    call,           \* the call in progress, or the last one made
    sent,           \* number of jobs the driver has sent
    jobs,           \* the jobs channel: the jobs buffered in it
    jobsClosed,     \* close(jobs) has run
    results,        \* the results channel
    resultsClosed,  \* close(results) has run
    wk,             \* the worker goroutines: position, job held, result
    acc,            \* the driver's newData / filteredData / resultMap
    ret,            \* what the last call returned: [df, err]
    pre,            \* the heap as the call in progress found it
    nops            \* number of operations called on tables so far

vars == <<heap, pc, call, sent, jobs, jobsClosed, results, resultsClosed, wk, acc,
          ret, pre, nops>>

\* The record of a call: the operation, its receiver and arguments, the
\* MaxWorkers of its options, the number of workers it starts and the jobs
\* it dispatches, and, for each job, how many times a worker has run the
\* processor on it.
NoCall ==
    [op |-> "none", kind |-> "none", recv |-> Nil, args |-> <<>>, numWorkers |-> 0,
     jobList |-> <<>>, maxWorkers |-> 0, processed |-> <<>>]

Desc(op, kind, f, args, numWorkers, jobList) ==
    [op |-> op, kind |-> kind, recv |-> f, args |-> args, numWorkers |-> numWorkers,
     jobList |-> jobList, maxWorkers |-> 0,
     processed |-> [q \in 1..Len(jobList) |-> 0]]

\* A call that has applied its options and holds opts.MaxWorkers.
PoolDesc(op, kind, f, args, maxWorkers, jobList) ==
    [Desc(op, kind, f, args, NumWorkers(maxWorkers, Len(jobList)), jobList)
         EXCEPT !.maxWorkers = maxWorkers]

WStart == [pc |-> "recv", job |-> <<>>, out |-> <<>>]

\* The call returns r without starting a worker pool.
Return(d, r) ==
    /\ heap' = r.h
    /\ ret' = [df |-> r.df, err |-> r.err]
    /\ call' = d
    /\ pc' = "idle"
    /\ sent' = 0
    /\ jobs' = <<>>
    /\ jobsClosed' = FALSE
    /\ results' = <<>>
    /\ resultsClosed' = FALSE
    /\ wk' = <<>>
    /\ acc' = <<>>
    /\ pre' = heap
    /\ nops' = nops + 1

\* The call makes its two channels and starts d.numWorkers workers.
Start(d, acc0) ==
    /\ UNCHANGED heap
    /\ ret' = [df |-> Nil, err |-> NoErr]
    /\ call' = d
    /\ pc' = "send"
    /\ sent' = 0
    /\ jobs' = <<>>
    /\ jobsClosed' = FALSE
    /\ results' = <<>>
    /\ resultsClosed' = FALSE
    /\ wk' = [w \in 1..d.numWorkers |-> WStart]
    /\ acc' = acc0
    /\ pre' = heap
    /\ nops' = nops + 1

\* The caller may call an operation on frame f.
CanCall(f) == pc = "idle" /\ f \in 1..Len(heap.frm)

\* ------------------------------------------------------ the parallel calls
\* parallelizeRows up to the start of its workers.
parallelizeRows(op, f, maxWorkers) ==
    LET n == Len(heap.frm[f].Data)
        d == PoolDesc(op, "rows", f, <<>>, maxWorkers, [j \in 1..n |-> j - 1])
    IN  IF n = 0 THEN Return(d, Ret(heap, f, NoErr))
        ELSE Start(d, [i \in 1..n |-> Nil])

TrimColumnsParallel(f, maxWorkers) ==
    /\ CanCall(f)
    /\ parallelizeRows("TrimColumnsParallel", f, maxWorkers)

\* TrimColumnsParallel called with a list of WithMaxWorkers options on a
\* host of numCPU cores: opts := defaultParallelOptions().
TrimColumnsParallelOptions(f, numCPU, options) ==
    /\ CanCall(f)
    /\ pc' = "options"
    /\ call' = Desc("TrimColumnsParallel", "rows", f,
                    [options |-> options, applied |-> 0, MaxWorkers |-> numCPU,
                     numCPU |-> numCPU],
                    0, <<>>)
    /\ UNCHANGED <<heap, sent, jobs, jobsClosed, results, resultsClosed, wk, acc, ret,
                   pre, nops>>

\* One turn of the loop over the options: option(opts).
ApplyOption ==
    /\ pc = "options"
    /\ call.args.applied < Len(call.args.options)
    /\ call' = [call EXCEPT
                   !.args.applied = @ + 1,
                   !.args.MaxWorkers =
                       WithMaxWorkers(@, call.args.options[call.args.applied + 1])]
    /\ UNCHANGED <<heap, pc, sent, jobs, jobsClosed, results, resultsClosed, wk, acc,
                   ret, pre, nops>>

\* The loop over the options is over; the call goes on with opts.MaxWorkers.
OptionsApplied ==
    /\ pc = "options"
    /\ call.args.applied = Len(call.args.options)
    /\ parallelizeRows("TrimColumnsParallel", call.recv, call.args.MaxWorkers)

\* parallelizeColumns up to the start of its workers: one job per row and
\* index kept.
parallelizeColumns(op, f, args, columnIndices, maxWorkers) ==
    LET data == heap.frm[f].Data
        n == Len(data)
        indices == SelectSeq(columnIndices,
                             LAMBDA idx : idx >= 0 /\ idx < Len(Headers(heap, f)))
        k == Len(indices)
        totalJobs == n * k
        jobList == [q \in 1..totalJobs |->
                       [rowIdx |-> (q - 1) \div k, colIdx |-> indices[((q - 1) % k) + 1],
                        rowData |-> data[((q - 1) \div k) + 1]]]
        d == PoolDesc(op, "cols", f, args, maxWorkers, jobList)
    IN  IF n = 0 \/ k = 0 THEN Return([d EXCEPT !.numWorkers = 0], Ret(heap, f, NoErr))
        ELSE Start(d, data)

\* A column call that does not test the index it looked up.
ColumnCallNoCheck(op, f, column, args, maxWorkers) ==
    parallelizeColumns(op, f, args, <<getColumnIndex(heap, f, column)>>, maxWorkers)

\* A column call that hands the column index over twice.
ColumnCallTwice(op, f, column, args, maxWorkers) ==
    LET colIndex == getColumnIndex(heap, f, column)
    IN  IF colIndex = 0 - 1
        THEN Return(Desc(op, "cols", f, args, 0, <<>>),
                    Ret(heap, Nil, ErrColumnNotFound(column)))
        ELSE parallelizeColumns(op, f, args, <<colIndex, colIndex>>, maxWorkers)

\* The column lookup every cell-parallel operation starts with.
ColumnCall(op, f, column, args, maxWorkers) ==
    LET colIndex == getColumnIndex(heap, f, column)
    IN  IF colIndex = 0 - 1
        THEN Return(Desc(op, "cols", f, args, 0, <<>>),
                    Ret(heap, Nil, ErrColumnNotFound(column)))
        ELSE parallelizeColumns(op, f, args, <<colIndex>>, maxWorkers)

ReplaceNullsParallel(f, column, defaultValue, maxWorkers) ==
    /\ CanCall(f)
    /\ ColumnCall("ReplaceNullsParallel", f, column,
                  [column |-> column, value |-> defaultValue], maxWorkers)

CleanDatesParallel(f, column, layout, maxWorkers) ==
    /\ CanCall(f)
    /\ ColumnCall("CleanDatesParallel", f, column,
                  [column |-> column, layout |-> layout], maxWorkers)

NormalizeCaseParallel(f, column, toUpper, maxWorkers) ==
    /\ CanCall(f)
    /\ ColumnCall("NormalizeCaseParallel", f, column,
                  [column |-> column, toUpper |-> toUpper], maxWorkers)

CleanWithRegexParallel(f, column, pattern, replacement, maxWorkers) ==
    /\ CanCall(f)
    /\ LET args == [column |-> column, pattern |-> pattern, replacement |-> replacement]
       IN  IF getColumnIndex(heap, f, column) # 0 - 1 /\ ~compileRegex(pattern)
           THEN Return(Desc("CleanWithRegexParallel", "cols", f, args, 0, <<>>),
                       Ret(heap, Nil, ErrInvalidRegexPattern(pattern)))
           ELSE ColumnCall("CleanWithRegexParallel", f, column, args, maxWorkers)

FilterOutliersParallel(f, column, min, max, maxWorkers) ==
    /\ CanCall(f)
    /\ LET colIndex == getColumnIndex(heap, f, column)
           n == Len(heap.frm[f].Data)
           args == [column |-> column, colIndex |-> colIndex, min |-> min, max |-> max]
       IN  IF colIndex = 0 - 1
           THEN Return(Desc("FilterOutliersParallel", "filter", f, args, 0, <<>>),
                       Ret(heap, Nil, ErrColumnNotFound(column)))
           ELSE Start(PoolDesc("FilterOutliersParallel", "filter", f, args,
                               maxWorkers, [j \in 1..n |-> j - 1]),
                      <<>>)

BatchProcessParallel(f, processors, maxWorkers) ==
    /\ CanCall(f)
    /\ LET n == Len(processors)
           d == PoolDesc("BatchProcessParallel", "batch", f, processors, maxWorkers,
                         [i \in 1..n |-> [index |-> i - 1, processor |-> processors[i]]])
       IN  IF n = 0 THEN Return([d EXCEPT !.numWorkers = 0], Ret(heap, f, NoErr))
           ELSE Start(d, <<>>)

\* ------------------------------------------------------------- the driver
\* jobs <- j
SendJob ==
    /\ pc = "send"
    /\ sent < Len(call.jobList)
    /\ Len(jobs) < Len(call.jobList)
    /\ jobs' = Append(jobs, call.jobList[sent + 1])
    /\ sent' = sent + 1
    /\ UNCHANGED <<heap, pc, call, jobsClosed, results, resultsClosed, wk, acc, ret,
                   pre, nops>>

\* A driver that goes on to collect without closing the jobs channel.
CloseJobsForgotten ==
    /\ pc = "send"
    /\ sent = Len(call.jobList)
    /\ pc' = "collect"
    /\ UNCHANGED <<heap, call, sent, jobs, jobsClosed, results, resultsClosed, wk, acc,
                   ret, pre, nops>>

\* close(jobs), and the goroutine that waits for the workers is started.
CloseJobs ==
    /\ pc = "send"
    /\ sent = Len(call.jobList)
    /\ jobsClosed' = TRUE
    /\ pc' = "collect"
    /\ UNCHANGED <<heap, call, sent, jobs, results, resultsClosed, wk, acc, ret, pre,
                   nops>>

\* wg.Wait() returns; close(results).
WaitAndClose ==
    /\ jobsClosed
    /\ ~resultsClosed
    /\ \A w \in DOMAIN wk : wk[w].pc = "done"
    /\ resultsClosed' = TRUE
    /\ UNCHANGED <<heap, pc, call, sent, jobs, jobsClosed, results, wk, acc, ret, pre,
                   nops>>

\* A batch collect loop that does not return on an error.
BatchCollectKeepGoing(r) ==
    /\ acc' = MapPut(acc, r.index, [df |-> r.df, err |-> r.err])
    /\ UNCHANGED <<ret, pc>>

\* The body of "for r := range results" of BatchProcessParallel.
BatchCollect(r) ==
    IF r.err # NoErr
    THEN /\ ret' = [df |-> Nil, err |-> r.err]
         /\ pc' = "idle"
         /\ UNCHANGED acc
    ELSE /\ acc' = MapPut(acc, r.index, [df |-> r.df, err |-> r.err])
         /\ UNCHANGED <<ret, pc>>

\* A collect loop that stores the rows in the order they arrive.
RowsCollectByArrival(newData, r) ==
    LET free == {i \in 1..Len(newData) : newData[i] = Nil}
    IN  [newData EXCEPT ![Min(free)] = r.row]

\* The body of "for r := range results" of parallelizeRows.
RowsCollect(newData, r) == [newData EXCEPT ![r.index + 1] = r.row]

\* A collect loop that is one row off.
ColsCollectShifted(newData, r) ==
    [newData EXCEPT ![((r.rowIdx + 1) % Len(newData)) + 1] = r.row]

\* The body of "for r := range results" of parallelizeColumns.
ColsCollect(newData, r) == [newData EXCEPT ![r.rowIdx + 1] = r.row]

\* A collect loop that appends every row, kept or not.
FilterCollectAll(filteredData, r, data) == Append(filteredData, data[r.index + 1])

\* The body of "for result := range results" of FilterOutliersParallel;
\* data is df.Data.
FilterCollect(filteredData, r, data) ==
    IF r.keep THEN Append(filteredData, data[r.index + 1]) ELSE filteredData

\* One iteration of the driver's loop over the results channel.
Collect ==
    /\ pc = "collect"
    /\ results # <<>>
    /\ results' = Tail(results)
    /\ LET r == Head(results)
       IN  CASE call.kind = "rows" ->
                  acc' = RowsCollect(acc, r) /\ UNCHANGED <<ret, pc>>
             [] call.kind = "cols" ->
                  acc' = ColsCollect(acc, r) /\ UNCHANGED <<ret, pc>>
             [] call.kind = "filter" ->
                  /\ acc' = FilterCollect(acc, r, heap.frm[call.recv].Data)
                  /\ UNCHANGED <<ret, pc>>
             [] call.kind = "batch" -> BatchCollect(r)
    /\ UNCHANGED <<heap, call, sent, jobs, jobsClosed, resultsClosed, wk, pre, nops>>

\* A combine loop that keeps the first processor's table.
BatchCombineFirst(h, f, resultMap, n) ==
    LET c == Copy(h, f)
    IN  Ret(c.h, resultMap[0].df, NoErr)

\* "Combine results in order" of BatchProcessParallel.
BatchCombine(h, f, resultMap, n) ==
    LET c == Copy(h, f)
        missing == {i \in 0..(n - 1) :
                       i \notin DOMAIN resultMap \/ resultMap[i].err # NoErr}
    IN  IF missing # {}
        THEN Ret(c.h, Nil, [kind |-> "missing or failed processor", index |-> Min(missing)])
        ELSE Ret(c.h, resultMap[n - 1].df, NoErr)

\* An end of call that stores the kept rows in the receiver, as the other
\* pools do.
FinishResultInPlace ==
    CASE call.kind \in {"rows", "cols", "filter"} ->
           Ret([heap EXCEPT !.frm[call.recv].Data = acc], call.recv, NoErr)
      [] call.kind = "batch" ->
           BatchCombine(heap, call.recv, acc, Len(call.jobList))

\* The results channel is closed and drained: the call returns.
FinishResult ==
    CASE call.kind \in {"rows", "cols"} ->
           Ret([heap EXCEPT !.frm[call.recv].Data = acc], call.recv, NoErr)
      [] call.kind = "filter" ->
           Ret([heap EXCEPT !.frm = Append(@,
                    [Headers |-> heap.frm[call.recv].Headers, Data |-> acc,
                     Types |-> heap.frm[call.recv].Types])],
               Len(heap.frm) + 1, NoErr)
      [] call.kind = "batch" ->
           BatchCombine(heap, call.recv, acc, Len(call.jobList))

Finish ==
    /\ pc = "collect"
    /\ results = <<>>
    /\ resultsClosed
    /\ heap' = FinishResult.h
    /\ ret' = [df |-> FinishResult.df, err |-> FinishResult.err]
    /\ pc' = "idle"
    /\ UNCHANGED <<call, sent, jobs, jobsClosed, results, resultsClosed, wk, acc, pre,
                   nops>>

\* ------------------------------------------------------------ the workers
\* j := <-jobs
WorkerReceive(w) ==
    /\ wk[w].pc = "recv"
    /\ jobs # <<>>
    /\ jobs' = Tail(jobs)
    /\ wk' = [wk EXCEPT ![w] = [pc |-> "work", job |-> Head(jobs), out |-> <<>>]]
    /\ UNCHANGED <<heap, pc, call, sent, jobsClosed, results, resultsClosed, acc, ret,
                   pre, nops>>

\* The range over jobs ends: the channel is closed and empty.
WorkerExit(w) ==
    /\ wk[w].pc = "recv"
    /\ jobs = <<>>
    /\ jobsClosed
    /\ wk' = [wk EXCEPT ![w] = [pc |-> "done", job |-> <<>>, out |-> <<>>]]
    /\ UNCHANGED <<heap, pc, call, sent, jobs, jobsClosed, results, resultsClosed, acc,
                   ret, pre, nops>>

\* The heap after the cell processor of a column call has run on job j.
ColumnProcessor(h, j) ==
    CASE call.op = "ReplaceNullsParallel" ->
           ReplaceNullsProcessor(h, j.rowData, j.colIdx, call.args.value)
      [] call.op = "CleanDatesParallel" ->
           CleanDatesProcessor(h, j.rowData, j.colIdx, call.args.layout)
      [] call.op = "NormalizeCaseParallel" ->
           NormalizeCaseProcessor(h, j.rowData, j.colIdx, call.args.toUpper)
      [] call.op = "CleanWithRegexParallel" ->
           CleanWithRegexProcessor(h, j.rowData, j.colIdx, call.args.pattern,
                                   call.args.replacement)

\* What a worker does with the job it holds: the heap it leaves and the
\* result it will send.
WorkerBody(h, j) ==
    CASE call.kind = "rows" ->
           LET a == h.frm[call.recv].Data[j + 1]
           IN  [h |-> TrimRowProcessor(h, a), out |-> [index |-> j, row |-> a]]
      [] call.kind = "cols" ->
           [h |-> ColumnProcessor(h, j), out |-> [rowIdx |-> j.rowIdx, row |-> j.rowData]]
      [] call.kind = "filter" ->
           [h |-> h,
            out |-> [index |-> j,
                     keep |-> FilterKeep(
                         h.row[h.frm[call.recv].Data[j + 1]][call.args.colIndex + 1],
                         call.args.min, call.args.max)]]
      [] call.kind = "batch" ->
           LET c == Copy(h, call.recv)
               r == ApplyProcessor(c.h, c.df, j.processor)
           IN  [h |-> r.h, out |-> [index |-> j.index, df |-> r.df, err |-> r.err]]

\* Position in the job list of the job j.
JobPos(j) == CHOOSE q \in 1..Len(call.jobList) : call.jobList[q] = j

WorkerProcess(w) ==
    /\ wk[w].pc = "work"
    /\ heap' = WorkerBody(heap, wk[w].job).h
    /\ wk' = [wk EXCEPT ![w] = [pc |-> "send", job |-> wk[w].job,
                                out |-> WorkerBody(heap, wk[w].job).out]]
    /\ call' = [call EXCEPT !.processed[JobPos(wk[w].job)] = @ + 1]
    /\ UNCHANGED <<pc, sent, jobs, jobsClosed, results, resultsClosed, acc, ret,
                   pre, nops>>

\* results <- ...
WorkerSend(w) ==
    /\ wk[w].pc = "send"
    /\ Len(results) < Len(call.jobList)
    /\ results' = Append(results, wk[w].out)
    /\ wk' = [wk EXCEPT ![w] = WStart]
    /\ UNCHANGED <<heap, pc, call, sent, jobs, jobsClosed, resultsClosed, acc, ret, pre,
                   nops>>

\* ---------------------------------------------------- the sequential calls
SeqDesc(op, f, args) == Desc(op, "seq", f, args, 0, <<>>)

\* The caller builds a header slice and rows and passes them to NewDataFrame.
CallNewDataFrame(headers, rows) ==
    /\ pc = "idle"
    /\ call.op = "none"
    /\ LET base == Len(heap.row)
           h1 == [heap EXCEPT !.hdr = Append(@, headers), !.row = @ \o rows]
           r == NewDataFrame(h1, Len(h1.hdr), [i \in 1..Len(rows) |-> base + i])
       IN  /\ heap' = r.h
           /\ ret' = [df |-> r.df, err |-> r.err]
           /\ call' = SeqDesc("NewDataFrame", Nil, [headers |-> headers, rows |-> rows])
           /\ pre' = h1
    /\ UNCHANGED <<pc, sent, jobs, jobsClosed, results, resultsClosed, wk, acc, nops>>

\* The caller builds one row slice, puts it twice in the rows and passes
\* them to NewDataFrame.
CallNewDataFrameShared(headers, row) ==
    /\ pc = "idle"
    /\ call.op = "none"
    /\ LET base == Len(heap.row)
           h1 == [heap EXCEPT !.hdr = Append(@, headers), !.row = Append(@, row)]
           r == NewDataFrame(h1, Len(h1.hdr), <<base + 1, base + 1>>)
       IN  /\ heap' = r.h
           /\ ret' = [df |-> r.df, err |-> r.err]
           /\ call' = SeqDesc("NewDataFrame", Nil,
                              [headers |-> headers, rows |-> <<row, row>>])
           /\ pre' = h1
    /\ UNCHANGED <<pc, sent, jobs, jobsClosed, results, resultsClosed, wk, acc, nops>>

CallTrimColumns(f) ==
    /\ CanCall(f)
    /\ Return(SeqDesc("TrimColumns", f, <<>>), TrimColumns(heap, f))

CallReplaceNulls(f, column, defaultValue) ==
    /\ CanCall(f)
    /\ Return(SeqDesc("ReplaceNulls", f, [column |-> column, value |-> defaultValue]),
              ReplaceNulls(heap, f, column, defaultValue))

CallCleanDates(f, column, layout) ==
    /\ CanCall(f)
    /\ Return(SeqDesc("CleanDates", f, [column |-> column, layout |-> layout]),
              CleanDates(heap, f, column, layout))

CallNormalizeCase(f, column, toUpper) ==
    /\ CanCall(f)
    /\ Return(SeqDesc("NormalizeCase", f, [column |-> column, toUpper |-> toUpper]),
              NormalizeCase(heap, f, column, toUpper))

CallRenameColumn(f, oldName, newName) ==
    /\ CanCall(f)
    /\ Return(SeqDesc("RenameColumn", f, [column |-> oldName, newName |-> newName]),
              RenameColumn(heap, f, oldName, newName))

CallCleanWithRegex(f, column, pattern, replacement) ==
    /\ CanCall(f)
    /\ Return(SeqDesc("CleanWithRegex", f,
                      [column |-> column, pattern |-> pattern,
                       replacement |-> replacement]),
              CleanWithRegex(heap, f, column, pattern, replacement))

CallSplitColumn(f, column, separator, newColumns) ==
    /\ CanCall(f)
    /\ Return(SeqDesc("SplitColumn", f,
                      [column |-> column, separator |-> separator,
                       newColumns |-> newColumns]),
              SplitColumn(heap, f, column, separator, newColumns))

CallFilterOutliers(f, column, min, max) ==
    /\ CanCall(f)
    /\ Return(SeqDesc("FilterOutliers", f, [column |-> column, min |-> min, max |-> max]),
              FilterOutliers(heap, f, column, min, max))

\* ------------------------------------------------------------ the inputs
\* Header lists and rows handed to NewDataFrame: a key column K and a value
\* column V; rows of the wrong width; an empty header list.
HeaderInputs == {<<>>, <<"K", "V">>}

RowInputs ==
    { <<<<" ", "a">>, <<"5">>>>,                 \* padded key, number in range
      <<<<"b", " ">>, <<>>>>,                    \* padded key, empty value
      <<<<"a", "-", "b">>, <<" ", "1", "2">>>>,  \* padded number out of range
      <<<<"c">>, <<"x">>>>,                      \* not a number, not a date
      <<<<"c">>>>,                               \* one cell only
      <<<<"c">>, <<"5">>, <<"5">>>> }            \* three cells

RECURSIVE SeqsUpTo(_, _)
SeqsUpTo(S, n) ==
    IF n = 0 THEN {<<>>}
    ELSE LET shorter == SeqsUpTo(S, n - 1)
         IN  shorter \cup {Append(t, x) : t \in {u \in shorter : Len(u) = n - 1}, x \in S}

Frames == 1..Len(heap.frm)

Columns == {"K", "V", "X"}

WorkerOptions == 1..MaxWorkersOpt

\* Default values for empty cells: a digit, and the empty string itself.
Replacements == {<<"0">>, <<>>}

Layouts == {LayoutISO}

Patterns == {PatNonDigit, PatBad}

NewNames == {<<>>, <<"A">>, <<"A", "B">>, <<"A", "V">>}

\* Bounds handed to the outlier filters: the number 5 is the upper bound, the
\* lower bound, or below the lower bound.
FilterBounds == {[min |-> 1, max |-> 5], [min |-> 5, max |-> 9], [min |-> 6, max |-> 9]}

Idle ==
    /\ pc = "idle"
    /\ call = NoCall
    /\ sent = 0
    /\ jobs = <<>>
    /\ jobsClosed = FALSE
    /\ results = <<>>
    /\ resultsClosed = FALSE
    /\ wk = <<>>
    /\ acc = <<>>
    /\ ret = [df |-> Nil, err |-> NoErr]
    /\ nops = 0

Init ==
    /\ heap = EmptyHeap
    /\ pre = EmptyHeap
    /\ Idle

PoolStep ==
    \/ SendJob
    \/ CloseJobs
    \/ WaitAndClose
    \/ Collect
    \/ Finish
    \/ \E w \in DOMAIN wk : WorkerReceive(w)
    \/ \E w \in DOMAIN wk : WorkerProcess(w)
    \/ \E w \in DOMAIN wk : WorkerSend(w)
    \/ \E w \in DOMAIN wk : WorkerExit(w)

\* The caller, having made fewer than limit calls, calls a sequential operation,
\* naming a column of columns.
SeqCallOn(limit, columns) ==
    \/ /\ nops < limit
       /\ \E f \in Frames : CallTrimColumns(f)
    \/ /\ nops < limit
       /\ \E f \in Frames, c \in columns, v \in Replacements : CallReplaceNulls(f, c, v)
    \/ /\ nops < limit
       /\ \E f \in Frames, c \in columns, l \in Layouts : CallCleanDates(f, c, l)
    \/ /\ nops < limit
       /\ \E f \in Frames, c \in columns, u \in BOOLEAN : CallNormalizeCase(f, c, u)
    \/ /\ nops < limit
       /\ \E f \in Frames, c \in columns, n \in {"K", "W"} : CallRenameColumn(f, c, n)
    \/ /\ nops < limit
       /\ \E f \in Frames, c \in columns, p \in Patterns : CallCleanWithRegex(f, c, p, <<>>)
    \/ /\ nops < limit
       /\ \E f \in Frames, c \in columns, n \in NewNames : CallSplitColumn(f, c, <<"-">>, n)
    \/ /\ nops < limit
       /\ \E f \in Frames, c \in columns, b \in FilterBounds :
              CallFilterOutliers(f, c, b.min, b.max)

SeqCall(limit) == SeqCallOn(limit, Columns)

\* The caller, having made fewer than limit calls, calls a parallel operation,
\* naming a column of columns.
ParCallOn(limit, columns) ==
    \/ /\ nops < limit
       /\ \E f \in Frames, m \in WorkerOptions : TrimColumnsParallel(f, m)
    \/ /\ nops < limit
       /\ \E f \in Frames, c \in columns, v \in Replacements, m \in WorkerOptions :
              ReplaceNullsParallel(f, c, v, m)
    \/ /\ nops < limit
       /\ \E f \in Frames, c \in columns, l \in Layouts, m \in WorkerOptions :
              CleanDatesParallel(f, c, l, m)
    \/ /\ nops < limit
       /\ \E f \in Frames, c \in columns, u \in BOOLEAN, m \in WorkerOptions :
              NormalizeCaseParallel(f, c, u, m)
    \/ /\ nops < limit
       /\ \E f \in Frames, c \in columns, p \in Patterns, m \in WorkerOptions :
              CleanWithRegexParallel(f, c, p, <<>>, m)
    \/ /\ nops < limit
       /\ \E f \in Frames, c \in columns, b \in FilterBounds, m \in WorkerOptions :
              FilterOutliersParallel(f, c, b.min, b.max, m)

ParCall(limit) == ParCallOn(limit, Columns)

\* A caller builds a table and chains up to MaxOps operations on it and on
\* the tables they return.
Next ==
    \/ \E headers \in HeaderInputs, rows \in SeqsUpTo(RowInputs, MaxRows) :
          CallNewDataFrame(headers, rows)
    \/ SeqCall(MaxOps)
    \/ ParCall(MaxOps)
    \/ PoolStep

Spec == Init /\ [][Next]_vars

\* ------------------------------------------------ one parallel call alone
\* A caller builds a table and calls one parallel operation on it.
NextPar ==
    \/ \E rows \in SeqsUpTo(RowInputs, MaxRows) : CallNewDataFrame(<<"K", "V">>, rows)
    \/ ParCall(1)
    \/ PoolStep

SpecPar == Init /\ [][NextPar]_vars

\* ----------------------------------------- one call naming no column
\* Names that match no header of the tables: another name, another case.
AbsentColumns == {"X", "k"}

\* A caller builds a table and calls one operation on it, naming a column
\* the table does not have.
NextAbsent ==
    \/ \E rows \in SeqsUpTo(RowInputs, MaxRows) : CallNewDataFrame(<<"K", "V">>, rows)
    \/ SeqCallOn(1, AbsentColumns)
    \/ ParCallOn(1, AbsentColumns)
    \/ PoolStep

SpecAbsent == Init /\ [][NextAbsent]_vars

\* -------------------------------------------------- the options of a call
MaxOptions == 2

\* Arguments handed to WithMaxWorkers.
OptionInputs == {0 - 1, 0, 1, 2}

\* runtime.NumCPU() of the hosts.
CPUs == {1, 3}

OptionTables == {<<>>, <<<<<<" ", "a">>, <<"5">>>>, <<<<"b", " ">>, <<>>>>>>}

NextOptions ==
    \/ \E rows \in OptionTables : CallNewDataFrame(<<"K", "V">>, rows)
    \/ /\ nops = 0
       /\ \E f \in Frames, c \in CPUs, o \in SeqsUpTo(OptionInputs, MaxOptions) :
              TrimColumnsParallelOptions(f, c, o)
    \/ ApplyOption
    \/ OptionsApplied
    \/ PoolStep

SpecOptions == Init /\ [][NextOptions]_vars

\* ------------------------------------------------- date cleaning alone
\* "2006/01/02": a layout the chain of CleanDates does not hold.
LayoutYMD == <<"2006", "/", "01", "/", "02">>

\* Output layouts handed to the date cleaners.
DateLayouts == {LayoutISO, LayoutMDY, LayoutYMD}

\* Rows of a table with a date column V.
DateRowInputs ==
    { <<<<"a">>, <<"2", "0", "2", "4", "-", "0", "1", "-", "1", "5">>>>,  \* 2024-01-15
      <<<<"b">>, <<"0", "1", "/", "0", "2", "/", "2", "0", "2", "4">>>>,  \* 01/02/2024
      <<<<"c">>, <<"2", "0", "2", "4", "/", "0", "1", "/", "1", "5">>>>,  \* 2024/01/15
      <<<<"d">>, <<"x">>>>,                                               \* no date
      <<<<"e">>, <<>>>> }                                                 \* empty

\* A caller builds a table and calls CleanDates on its date column.
NextDates ==
    \/ \E rows \in SeqsUpTo(DateRowInputs, MaxRows) : CallNewDataFrame(<<"K", "V">>, rows)
    \/ /\ nops = 0
       /\ \E f \in Frames, l \in DateLayouts : CallCleanDates(f, "V", l)

SpecDates == Init /\ [][NextDates]_vars

\* A caller builds a table and calls CleanDatesParallel on its date column.
NextDatesPar ==
    \/ \E rows \in SeqsUpTo(DateRowInputs, MaxRows) : CallNewDataFrame(<<"K", "V">>, rows)
    \/ /\ nops = 0
       /\ \E f \in Frames, l \in DateLayouts, m \in WorkerOptions :
              CleanDatesParallel(f, "V", l, m)
    \/ PoolStep

SpecDatesPar == Init /\ [][NextDatesPar]_vars

\* ------------------------------------------------ the same call twice
\* Rows with padded and mixed-case cells.
TwiceRowInputs ==
    { <<<<" ", "a">>, <<"A", "b">>>>,
      <<<<"b", " ">>, <<" ", "A", "b", " ">>>>,
      <<<<"C">>, <<>>>> }

TwiceColumns == {"K", "V"}

\* The caller passes the table the first call returned to the same
\* operation with the same arguments.
AgainTrimColumns ==
    /\ nops = 1 /\ pc = "idle" /\ call.op = "TrimColumns"
    /\ CallTrimColumns(ret.df)

AgainNormalizeCase ==
    /\ nops = 1 /\ pc = "idle" /\ call.op = "NormalizeCase"
    /\ CallNormalizeCase(ret.df, call.args.column, call.args.toUpper)

AgainTrimColumnsParallel ==
    /\ nops = 1 /\ pc = "idle" /\ call.op = "TrimColumnsParallel"
    /\ \E m \in WorkerOptions : TrimColumnsParallel(ret.df, m)

AgainNormalizeCaseParallel ==
    /\ nops = 1 /\ pc = "idle" /\ call.op = "NormalizeCaseParallel"
    /\ \E m \in WorkerOptions :
           NormalizeCaseParallel(ret.df, call.args.column, call.args.toUpper, m)

NextTwice ==
    \/ \E rows \in SeqsUpTo(TwiceRowInputs, MaxRows) : CallNewDataFrame(<<"K", "V">>, rows)
    \/ /\ nops = 0
       /\ \E f \in Frames : CallTrimColumns(f)
    \/ /\ nops = 0
       /\ \E f \in Frames, c \in TwiceColumns, u \in BOOLEAN : CallNormalizeCase(f, c, u)
    \/ /\ nops = 0
       /\ \E f \in Frames, m \in WorkerOptions : TrimColumnsParallel(f, m)
    \/ /\ nops = 0
       /\ \E f \in Frames, c \in TwiceColumns, u \in BOOLEAN, m \in WorkerOptions :
              NormalizeCaseParallel(f, c, u, m)
    \/ AgainTrimColumns
    \/ AgainNormalizeCase
    \/ AgainTrimColumnsParallel
    \/ AgainNormalizeCaseParallel
    \/ PoolStep

SpecTwice == Init /\ [][NextTwice]_vars

\* ---------------------------------------------- one sequential call alone
\* Header lists of the tables: two columns, and one name given twice.
SeqHeaderInputs == {<<"K", "V">>, <<"K", "K">>}

\* A caller builds a table and calls one sequential operation on it.
NextSeq ==
    \/ \E headers \in SeqHeaderInputs, rows \in SeqsUpTo(RowInputs, MaxRows) :
          CallNewDataFrame(headers, rows)
    \/ SeqCall(1)

SpecSeq == Init /\ [][NextSeq]_vars

\* ---------------------------------------------------- NewDataFrame alone
\* Header lists of no, one, two and three columns.
NewDataFrameHeaders == HeaderInputs \cup {<<"K">>, <<"K", "V", "W">>}

\* A caller builds a table.
NextNew ==
    \E headers \in NewDataFrameHeaders, rows \in SeqsUpTo(RowInputs, MaxRows) :
        CallNewDataFrame(headers, rows)

SpecNew == Init /\ [][NextNew]_vars

\* ------------------------------------------- BatchProcessParallel alone
\* The tables the batch is run on: empty, one row, two rows; a number that
\* the filter drops, a cell that is no number.
BatchTables ==
    { <<>>,
      << <<<<" ", "a">>, <<"5">>>> >>,
      << <<<<"c">>, <<"x">>>> >>,
      << <<<<" ", "a">>, <<"5">>>>, <<<<"c">>, <<"x">>>> >> }

ProcTrim == [op |-> "TrimColumns"]

ProcRename == [op |-> "RenameColumn", column |-> "K", newName |-> "W"]

ProcFilter == [op |-> "FilterOutliers", column |-> "V", min |-> 6, max |-> 9]

ProcNulls == [op |-> "ReplaceNulls", column |-> "X", value |-> <<"0">>]

Processors == {ProcTrim, ProcRename, ProcFilter, ProcNulls}

NextBatch ==
    \/ \E rows \in BatchTables : CallNewDataFrame(<<"K", "V">>, rows)
    \/ /\ nops = 0
       /\ \E f \in Frames, ps \in SeqsUpTo(Processors, MaxProcs), m \in WorkerOptions :
              BatchProcessParallel(f, ps, m)
    \/ PoolStep

SpecBatch == Init /\ [][NextBatch]_vars

\* ------------------------------------------------ the worker pool alone
\* Columns named by the calls: one the tables have, one they do not.
PoolColumns == {"V", "X"}

\* A caller builds a table and makes one parallel call, of any kind.
NextPool ==
    \/ \E rows \in BatchTables : CallNewDataFrame(<<"K", "V">>, rows)
    \/ ParCallOn(1, PoolColumns)
    \/ /\ nops = 0
       /\ \E f \in Frames, ps \in SeqsUpTo(Processors, MaxProcs), m \in WorkerOptions :
              BatchProcessParallel(f, ps, m)
    \/ PoolStep

SpecPool == Init /\ [][NextPool]_vars

\* The goroutine of the caller.
Driver == SendJob \/ CloseJobs \/ Collect \/ Finish

\* The w-th worker goroutine.
Worker(w) ==
    /\ w \in DOMAIN wk
    /\ (WorkerReceive(w) \/ WorkerProcess(w) \/ WorkerSend(w) \/ WorkerExit(w))

\* The Go scheduler runs every goroutine that can run: the caller, the
\* goroutine that waits for the workers, and each worker.
Fairness ==
    /\ WF_vars(Driver)
    /\ WF_vars(WaitAndClose)
    /\ \A w \in WorkerOptions : WF_vars(Worker(w))

\* A table without rows and a table of two rows.
LiveTables == {<<>>, << <<<<" ", "a">>, <<"5">>>>, <<<<"c">>, <<"x">>>> >>}

\* A caller builds a table and makes one call of one of the seven parallel
\* operations.
NextLive ==
    \/ \E rows \in LiveTables : CallNewDataFrame(<<"K", "V">>, rows)
    \/ /\ nops = 0
       /\ \E f \in Frames, m \in WorkerOptions : TrimColumnsParallel(f, m)
    \/ /\ nops = 0
       /\ \E f \in Frames, m \in WorkerOptions : ReplaceNullsParallel(f, "V", <<"0">>, m)
    \/ /\ nops = 0
       /\ \E f \in Frames, m \in WorkerOptions : CleanDatesParallel(f, "V", LayoutISO, m)
    \/ /\ nops = 0
       /\ \E f \in Frames, m \in WorkerOptions : NormalizeCaseParallel(f, "V", TRUE, m)
    \/ /\ nops = 0
       /\ \E f \in Frames, m \in WorkerOptions :
              CleanWithRegexParallel(f, "V", PatNonDigit, <<>>, m)
    \/ /\ nops = 0
       /\ \E f \in Frames, m \in WorkerOptions : FilterOutliersParallel(f, "V", 6, 9, m)
    \/ /\ nops = 0
       /\ \E f \in Frames, ps \in SeqsUpTo({ProcTrim, ProcFilter}, MaxProcs),
             m \in WorkerOptions :
              BatchProcessParallel(f, ps, m)
    \/ PoolStep

FairPool == Init /\ [][NextLive]_vars /\ Fairness

\* ------------------------------------------- the cell-parallel calls alone
CellRowInputs ==
    { <<<<"a">>, <<>>>>,
      <<<<"b">>, <<"2", "0", "2", "4", "-", "0", "1", "-", "1", "5">>>>,
      <<<<"c">>, <<"x">>>> }

\* A caller builds a table, of rows of their own or of one row put twice,
\* and makes one cell-parallel call on its column V.
NextCells ==
    \/ \E rows \in SeqsUpTo(CellRowInputs, MaxRows) : CallNewDataFrame(<<"K", "V">>, rows)
    \/ \E row \in CellRowInputs : CallNewDataFrameShared(<<"K", "V">>, row)
    \/ /\ nops = 0
       /\ \E f \in Frames, m \in WorkerOptions : ReplaceNullsParallel(f, "V", <<"0">>, m)
    \/ /\ nops = 0
       /\ \E f \in Frames, m \in WorkerOptions : CleanDatesParallel(f, "V", LayoutMDY, m)
    \/ /\ nops = 0
       /\ \E f \in Frames, m \in WorkerOptions : NormalizeCaseParallel(f, "V", TRUE, m)
    \/ /\ nops = 0
       /\ \E f \in Frames, m \in WorkerOptions :
              CleanWithRegexParallel(f, "V", PatNonDigit, <<>>, m)
    \/ PoolStep

SpecCells == Init /\ [][NextCells]_vars

\* ------------------------------------------- renaming and splitting alone
\* Lists of new names, one of them with the same name twice.
SplitNames == NewNames \cup {<<"A", "A">>}

\* A caller builds a table of distinct headers and renames or splits one
\* of its columns.
NextNames ==
    \/ \E rows \in SeqsUpTo(TwiceRowInputs, MaxRows) : CallNewDataFrame(<<"K", "V">>, rows)
    \/ /\ nops = 0
       /\ \E f \in Frames, c \in Columns, n \in {"K", "W"} : CallRenameColumn(f, c, n)
    \/ /\ nops = 0
       /\ \E f \in Frames, c \in Columns, n \in SplitNames : CallSplitColumn(f, c, <<" ">>, n)

SpecNames == Init /\ [][NextNames]_vars

\* ================================================================ claims
\* The last call made was op and it has returned to its caller.
Returned(op) == pc = "idle" /\ call.op = op

\* The receiver's rows as the call found them.
PreRows == Data(pre, call.recv)

\* The column the call names exists in the receiver.
ColumnExists == getColumnIndex(pre, call.recv, call.args.column) # 0 - 1

\* 1-based position of the column the call names.
Col == getColumnIndex(pre, call.recv, call.args.column) + 1

\* ---------------------------------------------------------------- C1
\* C1: whatever the worker count and the interleaving, TrimColumnsParallel
\* returns the receiver with the same rows in the same order as TrimColumns
\* gives on the same input: row i is input row i with every cell trimmed.
C1_TrimParallelIsTrim ==
    Returned("TrimColumnsParallel") =>
        LET s == TrimColumns(pre, call.recv)
        IN  /\ ret = [df |-> s.df, err |-> NoErr]
            /\ Table(heap, ret.df) = Table(s.h, s.df)
            /\ Len(Data(heap, ret.df)) = Len(PreRows)
            /\ \A i \in 1..Len(PreRows) : \A j \in 1..Len(PreRows[i]) :
                   Data(heap, ret.df)[i][j] = TrimSpace(PreRows[i][j])

\* Two workers have trimmed a table of two different rows.
C1_Witness ==
    /\ Returned("TrimColumnsParallel")
    /\ call.numWorkers >= 2
    /\ Len(PreRows) >= 2
    /\ PreRows[1] # PreRows[2]
    /\ Data(heap, ret.df) # PreRows

\* ---------------------------------------------------------------- C2
SequentialCounterpart ==
    CASE call.op = "ReplaceNullsParallel" ->
           ReplaceNulls(pre, call.recv, call.args.column, call.args.value)
      [] call.op = "NormalizeCaseParallel" ->
           NormalizeCase(pre, call.recv, call.args.column, call.args.toUpper)
      [] call.op = "CleanWithRegexParallel" ->
           CleanWithRegex(pre, call.recv, call.args.column, call.args.pattern,
                          call.args.replacement)

CellParallelReturned ==
    /\ pc = "idle"
    /\ call.op \in {"ReplaceNullsParallel", "NormalizeCaseParallel",
                    "CleanWithRegexParallel"}
    /\ ColumnExists
    /\ call.op = "CleanWithRegexParallel" => call.args.pattern.valid

\* C2: ReplaceNullsParallel, NormalizeCaseParallel and CleanWithRegexParallel
\* on an existing column put the rows back by row index: as many rows as in
\* the input, row i changed in the cell of that column only, and the table
\* the sequential operation gives on the same input.
C2_CellParallelIsSequential ==
    CellParallelReturned =>
        LET s == SequentialCounterpart
        IN  /\ ret = [df |-> call.recv, err |-> NoErr]
            /\ s.err = NoErr
            /\ Table(heap, ret.df) = Table(s.h, s.df)
            /\ Len(Data(heap, ret.df)) = Len(PreRows)
            /\ \A i \in 1..Len(PreRows) : \A j \in 1..Len(PreRows[i]) :
                   j # Col => Data(heap, ret.df)[i][j] = PreRows[i][j]

\* Two workers have rewritten a column of a table of two different rows.
C2_Witness ==
    /\ CellParallelReturned
    /\ call.numWorkers >= 2
    /\ Len(PreRows) >= 2
    /\ PreRows[1] # PreRows[2]
    /\ Data(heap, ret.df) # PreRows

\* ---------------------------------------------------------------- C3
FilterReturned == Returned("FilterOutliersParallel") /\ ColumnExists

SequentialFilter ==
    FilterOutliers(pre, call.recv, call.args.column, call.args.min, call.args.max)

\* C3 as stated: for every table, also one with a padded or non-numeric
\* cell, FilterOutliersParallel returns the rows FilterOutliers returns.
C3_Original ==
    FilterReturned =>
        /\ SequentialFilter.err = ret.err
        /\ ret.df # Nil
        /\ Range(Data(heap, ret.df)) = Range(Data(SequentialFilter.h, SequentialFilter.df))

\* C3, amended: when FilterOutliers succeeds on the input (every cell of the
\* column is empty or a number as written), FilterOutliersParallel returns
\* the same set of rows; when a cell is padded or not a number FilterOutliers
\* fails and returns no table, and FilterOutliersParallel returns one.
C3_FilterSameSetWhenSequentialSucceeds ==
    FilterReturned =>
        LET s == SequentialFilter
        IN  /\ ret.err = NoErr /\ ret.df # Nil
            /\ s.err = NoErr <=>
                   \A i \in 1..Len(PreRows) :
                       PreRows[i][Col] = <<>> \/ ParseFloat(PreRows[i][Col]).ok
            /\ s.err = NoErr =>
                   /\ Range(heap.frm[ret.df].Data) = Range(s.h.frm[s.df].Data)
                   /\ Range(Data(heap, ret.df)) = Range(Data(s.h, s.df))
            /\ s.err # NoErr => s.df = Nil

\* Two workers have filtered a numeric column, keeping a row and dropping one.
C3_Witness ==
    /\ FilterReturned
    /\ call.numWorkers >= 2
    /\ SequentialFilter.err = NoErr
    /\ Len(heap.frm[ret.df].Data) = 1
    /\ Len(PreRows) = 2

\* ---------------------------------------------------------------- C4
\* C4 as stated: a non-empty cell that is no number makes
\* FilterOutliersParallel fail with an error and return no table.
C4_Original ==
    (FilterReturned
       /\ \E i \in 1..Len(PreRows) :
              PreRows[i][Col] # <<>> /\ ~ParseFloat(TrimSpace(PreRows[i][Col])).ok)
    => (ret.err # NoErr /\ ret.df = Nil)

\* The rows FilterOutliersParallel is to keep: the cell is empty, or is no
\* number after trimming, or is a number within the bounds.
ExpectedKept ==
    {heap.frm[call.recv].Data[i] : i \in
        {k \in 1..Len(PreRows) :
            LET cell == PreRows[k][Col]
                num == ParseFloat(TrimSpace(cell))
            IN  \/ cell = <<>>
                \/ ~num.ok
                \/ (num.val >= call.args.min /\ num.val <= call.args.max)}}

\* C4, amended: FilterOutliersParallel never fails because of a cell: on an
\* existing column it returns a table and no error, and it keeps exactly the
\* rows whose cell is empty, or does not parse as a number after trimming
\* (such rows are kept, not reported), or parses to a value within
\* [min, max].
C4_FilterParallelKeepsUnparsable ==
    FilterReturned =>
        /\ ret.err = NoErr
        /\ ret.df # Nil
        /\ Range(heap.frm[ret.df].Data) = ExpectedKept

\* The call has returned a table holding a row whose cell is no number.
C4_Witness ==
    /\ FilterReturned
    /\ ret.err = NoErr
    /\ \E i \in 1..Len(Data(heap, ret.df)) :
           /\ Data(heap, ret.df)[i][Col] # <<>>
           /\ ~ParseFloat(TrimSpace(Data(heap, ret.df)[i][Col])).ok

\* ---------------------------------------------------------------- C5
\* Position of address a in the receiver's Data.
PosInReceiver(a) == CHOOSE i \in 1..Len(heap.frm[call.recv].Data) :
                        heap.frm[call.recv].Data[i] = a

\* C5: the table FilterOutliersParallel returns holds each kept row once and
\* nothing else, in some order: a permutation of the kept rows.
C5_FilterResultIsPermutation ==
    FilterReturned =>
        LET out == heap.frm[ret.df].Data
        IN  /\ \A i, k \in 1..Len(out) : out[i] = out[k] => i = k
            /\ Range(out) \subseteq Range(heap.frm[call.recv].Data)
            /\ Len(out) = Cardinality(ExpectedKept)
            /\ \A a \in ExpectedKept : \E i \in 1..Len(out) : out[i] = a

\* With two workers the kept rows have come out in another order than they
\* had in the receiver.
C5_Witness ==
    /\ FilterReturned
    /\ call.numWorkers >= 2
    /\ LET out == heap.frm[ret.df].Data
       IN  \E i, k \in 1..Len(out) :
               i < k /\ PosInReceiver(out[i]) > PosInReceiver(out[k])

\* ---------------------------------------------------------------- C6
BatchReturned == Returned("BatchProcessParallel") /\ call.args # <<>>

\* What processor k of the batch gives on its own copy of the receiver.
ProcessorOutcome(k) ==
    LET c == Copy(pre, call.recv)
    IN  ApplyProcessor(c.h, c.df, call.args[k])

Failing == {k \in 1..Len(call.args) : ProcessorOutcome(k).err # NoErr}

\* C6: when every processor succeeds, BatchProcessParallel returns the table
\* the last processor of the list makes of its own copy of the receiver.
C6_BatchReturnsLastProcessor ==
    (BatchReturned /\ Failing = {}) =>
        LET last == ProcessorOutcome(Len(call.args))
        IN  /\ ret.err = NoErr
            /\ ret.df # Nil
            /\ ret.df # call.recv
            /\ Table(heap, ret.df) = Table(last.h, last.df)

\* Two workers ran two processors whose tables differ, and the batch
\* succeeded.
C6_Witness ==
    /\ BatchReturned
    /\ Failing = {}
    /\ call.numWorkers >= 2
    /\ Len(call.args) >= 2
    /\ Table(ProcessorOutcome(1).h, ProcessorOutcome(1).df) # Table(heap, ret.df)

\* ---------------------------------------------------------------- C7
\* C7: when a processor of the batch fails, BatchProcessParallel returns no
\* table and the error of one of the failing processors.
C7_BatchFailsWithProcessorError ==
    (BatchReturned /\ Failing # {}) =>
        /\ ret.df = Nil
        /\ \E k \in Failing : ret.err = ProcessorOutcome(k).err

\* The batch failed although its other processor succeeded, with two workers.
C7_Witness ==
    /\ BatchReturned
    /\ call.numWorkers >= 2
    /\ Failing # {}
    /\ Failing # 1..Len(call.args)
    /\ ret.err # NoErr

\* ---------------------------------------------------------------- C8
\* The storage two frames share.
SharedStorage(f, g) ==
    \/ heap.frm[f].Headers = heap.frm[g].Headers
    \/ heap.frm[f].Types = heap.frm[g].Types
    \/ Range(heap.frm[f].Data) \cap Range(heap.frm[g].Data) # {}

\* C8: during and after BatchProcessParallel the receiver's headers, rows and
\* type map are as the call found them, and no two frames (the receiver, the
\* copy of each processor, the driver's copy) share a header slice, a row or
\* a type map.
C8_BatchCopiesAreDeep ==
    call.op = "BatchProcessParallel" =>
        /\ Table(heap, call.recv) = Table(pre, call.recv)
        /\ heap.frm[call.recv] = pre.frm[call.recv]
        /\ \A f, g \in Frames : f # g => ~SharedStorage(f, g)

\* A failed batch in which a processor has rewritten its copy.
C8_Witness ==
    /\ BatchReturned
    /\ ret.err # NoErr
    /\ \E g \in Frames : Table(heap, g) # Table(heap, call.recv)

\* ---------------------------------------------------------------- C9
Rectangular(f) ==
    \A i \in 1..Len(heap.frm[f].Data) :
        /\ heap.frm[f].Data[i] \in 1..Len(heap.row)
        /\ Len(heap.row[heap.frm[f].Data[i]]) = Len(Headers(heap, f))

\* C9: every row of every table has as many cells as the table has headers,
\* after every operation and while a pool is at work.
C9_Rectangular == \A f \in Frames : Rectangular(f)

\* A column was split in two and a parallel operation then ran on the wider
\* table.
C9_Witness ==
    /\ pc = "idle"
    /\ nops = 2
    /\ call.kind \in {"rows", "cols", "filter"}
    /\ ret.df # Nil
    /\ Len(Headers(heap, ret.df)) = 3
    /\ Len(heap.frm[ret.df].Data) = 2

\* --------------------------------------------------------------- C10
InputHeaders == call.args.headers

InputRows == call.args.rows

BadRows == {i \in 1..Len(InputRows) : Len(InputRows[i]) # Len(InputHeaders)}

\* C10: NewDataFrame fails with the empty-headers error when there is no
\* header, whatever the rows; else with the shape error naming the first row
\* of the wrong width, its width and the expected width; else it returns a
\* table of the given headers and rows with every header typed string.
C10_NewDataFrame ==
    Returned("NewDataFrame") =>
        IF InputHeaders = <<>> THEN ret = [df |-> Nil, err |-> ErrEmptyHeaders]
        ELSE IF BadRows # {}
        THEN \E i \in BadRows :
                 /\ \A k \in BadRows : i <= k
                 /\ ret = [df |-> Nil,
                           err |-> ErrShape(i - 1, Len(InputRows[i]), Len(InputHeaders))]
        ELSE /\ ret.err = NoErr
             /\ ret.df \in Frames
             /\ Table(heap, ret.df) =
                    [headers |-> InputHeaders, rows |-> InputRows,
                     types |-> [x \in Range(InputHeaders) |-> TypeString]]

\* Two rows of two different wrong widths were handed in.
C10_Witness ==
    /\ Returned("NewDataFrame")
    /\ InputHeaders # <<>>
    /\ Cardinality(BadRows) = 2
    /\ Len(InputRows[1]) # Len(InputRows[2])

\* --------------------------------------------------------------- C11
ColumnOps ==
    {"ReplaceNulls", "NormalizeCase", "CleanWithRegex", "CleanDates", "FilterOutliers",
     "SplitColumn", "RenameColumn", "ReplaceNullsParallel", "NormalizeCaseParallel",
     "CleanWithRegexParallel", "CleanDatesParallel", "FilterOutliersParallel"}

\* The call in progress, or the last one made, names a column and the
\* receiver had no such header.
AbsentColumnCall == call.op \in ColumnOps /\ ~ColumnExists

\* C11: a column operation, sequential or parallel, called with a name that
\* matches no header returns no table and the column-not-found error naming
\* that column, starts no worker, and leaves every header, row and type map
\* as it was.
C11_ColumnNotFound ==
    AbsentColumnCall =>
        /\ pc = "idle"
        /\ wk = <<>>
        /\ call.numWorkers = 0
        /\ ret.df = Nil
        /\ ret.err.kind = "column not found"
        /\ ret.err.column = call.args.column
        /\ heap = pre

\* A parallel operation was called on a table of two rows with a name that
\* differs from a header in case only.
C11_Witness ==
    /\ AbsentColumnCall
    /\ call.kind \in {"cols", "filter"}
    /\ call.args.column = "k"
    /\ Len(PreRows) = 2

\* --------------------------------------------------------------- C12
\* Every cell of the column the call names was empty or a number as written.
NumericColumn ==
    \A i \in 1..Len(PreRows) : PreRows[i][Col] = <<>> \/ ParseFloat(PreRows[i][Col]).ok

\* The row at address a is to stay: its cell is empty or within the bounds.
WithinBounds(a) ==
    LET cell == pre.row[a][Col]
    IN  \/ cell = <<>>
        \/ (DecValue(cell) >= call.args.min /\ DecValue(cell) <= call.args.max)

\* C12: FilterOutliers on a column of empty and numeric cells succeeds and
\* leaves in the receiver exactly the rows whose cell is empty or lies within
\* [min, max], bounds included, in the order they had; the rows themselves,
\* the headers and the type map are not touched.
C12_FilterOutliersSubsequence ==
    (Returned("FilterOutliers") /\ ColumnExists /\ NumericColumn) =>
        /\ ret = [df |-> call.recv, err |-> NoErr]
        /\ heap.frm[call.recv].Data =
               SelectSeq(pre.frm[call.recv].Data, LAMBDA a : WithinBounds(a))
        /\ heap.row = pre.row
        /\ Headers(heap, call.recv) = Headers(pre, call.recv)
        /\ Types(heap, call.recv) = Types(pre, call.recv)

\* Of two rows the first, a number below the lower bound, was dropped and
\* the second kept.
C12_Witness ==
    /\ Returned("FilterOutliers") /\ ColumnExists /\ NumericColumn
    /\ Len(PreRows) = 2
    /\ PreRows[1][Col] = <<"5">>
    /\ heap.frm[call.recv].Data = <<pre.frm[call.recv].Data[2]>>

\* --------------------------------------------------------------- C13
\* The layouts CleanDates tries, in the order it tries them.
SeqChain == <<RFC3339, LayoutISO, LayoutDMY, LayoutMDY>>

\* The cell parses under a layout of the chain.
ParsesInChain(cell) == \E n \in 1..Len(SeqChain) : TimeParse(SeqChain[n], cell).ok

\* The time the first layout of the chain that parses the cell gives.
FirstInChain(cell) ==
    LET n == CHOOSE n \in 1..Len(SeqChain) :
                 /\ TimeParse(SeqChain[n], cell).ok
                 /\ \A k \in 1..(n - 1) : ~TimeParse(SeqChain[k], cell).ok
    IN  TimeParse(SeqChain[n], cell).t

\* The rows whose cell is not empty and parses under no layout of the chain.
Unparsed == {i \in 1..Len(PreRows) : PreRows[i][Col] # <<>> /\ ~ParsesInChain(PreRows[i][Col])}

\* What CleanDates makes of a cell it accepts.
Rewritten(cell) ==
    IF cell = <<>> THEN <<>> ELSE TimeFormat(FirstInChain(cell), call.args.layout)

CleanDatesReturned == Returned("CleanDates") /\ ColumnExists

\* C13: when row k is the first whose cell no layout parses, CleanDates
\* returns no table and the date-format error naming k, the column and the
\* cell; the cells of the rows before k have been rewritten, the rows from
\* k on, the headers and the type map are as they were.
C13_CleanDatesFailFast ==
    (CleanDatesReturned /\ Unparsed # {}) =>
        LET k == Min(Unparsed)
            now == Data(heap, call.recv)
        IN  /\ ret = [df |-> Nil,
                      err |-> ErrDateFormat(k - 1, call.args.column, PreRows[k][Col])]
            /\ Len(now) = Len(PreRows)
            /\ \A i \in 1..(k - 1) :
                   now[i] = [PreRows[i] EXCEPT ![Col] = Rewritten(PreRows[i][Col])]
            /\ \A i \in k..Len(PreRows) : now[i] = PreRows[i]
            /\ Headers(heap, call.recv) = Headers(pre, call.recv)
            /\ Types(heap, call.recv) = Types(pre, call.recv)
            /\ Types(heap, call.recv)[call.args.column] = TypeString

\* The call failed at its second row after it had rewritten the first.
C13_Witness ==
    /\ CleanDatesReturned
    /\ Unparsed = {2}
    /\ PreRows[1][Col] # <<>>
    /\ Data(heap, call.recv)[1] # PreRows[1]
    /\ ret.err # NoErr

\* --------------------------------------------------------------- C14
\* C14: CleanDates parses each non-empty cell with the chain RFC3339,
\* 2006-01-02, 02/01/2006, 01/02/2006 in that order and never with the
\* caller's layout: it succeeds exactly when every non-empty cell parses
\* under the chain, and then every cell holds the time the first parsing
\* layout of the chain gave, formatted with the caller's layout, and the
\* column is tagged as a date column.
C14_CleanDatesFixedChain ==
    CleanDatesReturned =>
        /\ (ret.err = NoErr) <=> (Unparsed = {})
        /\ Unparsed = {} =>
               /\ ret.df = call.recv
               /\ Len(Data(heap, call.recv)) = Len(PreRows)
               /\ \A i \in 1..Len(PreRows) :
                      Data(heap, call.recv)[i] =
                          [PreRows[i] EXCEPT ![Col] = Rewritten(PreRows[i][Col])]
               /\ Types(heap, call.recv)[call.args.column] = TypeDate

\* A cell both day-first and month-first was read day-first although the
\* caller's layout is month-first.
C14_Witness ==
    /\ CleanDatesReturned
    /\ call.args.layout = LayoutMDY
    /\ Len(PreRows) = 1
    /\ TimeParse(LayoutMDY, PreRows[1][Col]).ok
    /\ ret.err = NoErr
    /\ Data(heap, call.recv)[1][Col] # PreRows[1][Col]

\* C14 as stated: a cell that parses under the caller's layout is accepted
\* and read according to that layout.
C14_Original ==
    (CleanDatesReturned
        /\ \A i \in 1..Len(PreRows) :
               PreRows[i][Col] = <<>> \/ TimeParse(call.args.layout, PreRows[i][Col]).ok) =>
        /\ ret.err = NoErr
        /\ \A i \in 1..Len(PreRows) :
               PreRows[i][Col] # <<>> =>
                   Data(heap, call.recv)[i][Col] =
                       TimeFormat(TimeParse(call.args.layout, PreRows[i][Col]).t, call.args.layout)

\* --------------------------------------------------------------- C15
\* The cell parses under a layout parseDate knows.
ParsesSomewhere(cell) ==
    \E n \in 1..Len(ParseDateFormats(call.args.layout)) :
        TimeParse(ParseDateFormats(call.args.layout)[n], cell).ok

\* The time the first layout of parseDate that parses the cell gives.
FirstOfParseDate(cell) ==
    LET formats == ParseDateFormats(call.args.layout)
        n == CHOOSE n \in 1..Len(formats) :
                 /\ TimeParse(formats[n], cell).ok
                 /\ \A k \in 1..(n - 1) : ~TimeParse(formats[k], cell).ok
    IN  TimeParse(formats[n], cell).t

\* What CleanDatesParallel makes of a cell.
RewrittenParallel(cell) ==
    IF cell = <<>> \/ ~ParsesSomewhere(cell) THEN cell
    ELSE TimeFormat(FirstOfParseDate(cell), call.args.layout)

CleanDatesParallelReturned == Returned("CleanDatesParallel") /\ ColumnExists

\* The rows whose cell is not empty and parses under no layout of parseDate.
Hopeless == {i \in 1..Len(PreRows) : PreRows[i][Col] # <<>> /\ ~ParsesSomewhere(PreRows[i][Col])}

\* C15: on an existing column CleanDatesParallel returns its table and no
\* error whatever the cells hold; a non-empty cell some layout parses is
\* rewritten to the caller's layout, an empty cell and a cell no layout
\* parses are as they were, and CleanDates on the same table fails when
\* there is a cell no layout parses.
C15_CleanDatesParallelNeverFails ==
    CleanDatesParallelReturned =>
        /\ ret = [df |-> call.recv, err |-> NoErr]
        /\ Len(Data(heap, call.recv)) = Len(PreRows)
        /\ \A i \in 1..Len(PreRows) :
               Data(heap, call.recv)[i] =
                   [PreRows[i] EXCEPT ![Col] = RewrittenParallel(PreRows[i][Col])]
        /\ Hopeless # {} =>
               CleanDates(pre, call.recv, call.args.column, call.args.layout).err
                   = ErrDateFormat(Min(Hopeless \cup Unparsed) - 1, call.args.column,
                                   PreRows[Min(Hopeless \cup Unparsed)][Col])

\* Two workers cleaned a table whose first cell parses and whose second
\* cell no layout parses.
C15_Witness ==
    /\ CleanDatesParallelReturned
    /\ call.numWorkers = 2
    /\ Hopeless = {2}
    /\ PreRows[1][Col] # <<>>
    /\ Data(heap, call.recv)[1][Col] # PreRows[1][Col]
    /\ Data(heap, call.recv)[2] = PreRows[2]

\* --------------------------------------------------------------- C16
ReplaceNullsReturned == Returned("ReplaceNulls") /\ ColumnExists

\* C16: ReplaceNulls on an existing column returns its table and no error;
\* every cell of the column that was empty holds the default value, every
\* other cell of the table is as it was; so when the default value is not
\* empty no cell of the column is empty, and when it is empty the table is
\* unchanged.
C16_ReplaceNullsFillsEmpty ==
    ReplaceNullsReturned =>
        /\ ret = [df |-> call.recv, err |-> NoErr]
        /\ Len(Data(heap, call.recv)) = Len(PreRows)
        /\ \A i \in 1..Len(PreRows) :
               Data(heap, call.recv)[i] =
                   [PreRows[i] EXCEPT ![Col] =
                        IF @ = <<>> THEN call.args.value ELSE @]
        /\ call.args.value # <<>> =>
               \A i \in 1..Len(PreRows) : Data(heap, call.recv)[i][Col] # <<>>
        /\ call.args.value = <<>> => heap = pre

\* Two empty cells of the column were filled.
C16_Witness ==
    /\ ReplaceNullsReturned
    /\ Len(PreRows) = 2
    /\ PreRows[1][Col] = <<>> /\ PreRows[2][Col] = <<>>
    /\ call.args.value # <<>>
    /\ Data(heap, call.recv)[2][Col] = call.args.value

\* C16 as stated: whatever the default value, no cell of the column is
\* empty afterwards.
C16_Original ==
    ReplaceNullsReturned =>
        \A i \in 1..Len(PreRows) : Data(heap, call.recv)[i][Col] # <<>>

\* --------------------------------------------------------------- C17
IdempotentOps == {"TrimColumns", "NormalizeCase", "TrimColumnsParallel", "NormalizeCaseParallel"}

\* The second of two equal calls has returned.
SecondReturned == nops = 2 /\ pc = "idle" /\ call.op \in IdempotentOps

\* C17: TrimColumns, NormalizeCase and their parallel variants, applied to
\* the table their first application returned with the same arguments,
\* return that table unchanged, whatever the worker counts and the
\* interleavings of the two applications.
C17_Idempotent ==
    SecondReturned =>
        /\ ret = [df |-> call.recv, err |-> NoErr]
        /\ heap = pre

\* The second of two parallel upper-casing applications returned on a
\* table with letters.
C17_Witness ==
    /\ SecondReturned
    /\ call.op = "NormalizeCaseParallel"
    /\ call.numWorkers = 2
    /\ call.args.toUpper
    /\ \E i \in 1..Len(PreRows) : ToLower(PreRows[i][Col]) # PreRows[i][Col]

\* --------------------------------------------------------------- C18
\* The k-th part of a cell cut at the separator, empty when there is none.
Part(cell, separator, k) ==
    IF k <= Len(Split(cell, separator)) THEN Split(cell, separator)[k] ELSE <<>>

\* A sequence with the element at position p replaced by the n elements
\* new[1..n].
Spliced(old, p, new) ==
    [j \in 1..(Len(old) + Len(new) - 1) |->
        IF j < p THEN old[j]
        ELSE IF j < p + Len(new) THEN new[j - p + 1]
        ELSE old[j - Len(new) + 1]]

SplitColumnSucceeded == Returned("SplitColumn") /\ ret.err = NoErr

\* C18: a SplitColumn that succeeds returns its table with, in the headers
\* and in every row, the column's position taken by as many entries as
\* there are new names: the new names in the headers, and in a row the
\* parts of the old cell in order, empty where the cell has fewer parts,
\* parts beyond the last name dropped; everything else keeps its order,
\* the number of rows is the same, and the type map has lost the entry of
\* the old column and holds string for every new name.
C18_SplitColumnShape ==
    SplitColumnSucceeded =>
        LET names == call.args.newColumns
            sep == call.args.separator
            now == Data(heap, call.recv)
            was == Types(pre, call.recv)
            types == Types(heap, call.recv)
        IN  /\ ret.df = call.recv
            /\ Headers(heap, call.recv) = Spliced(Headers(pre, call.recv), Col, names)
            /\ Len(now) = Len(PreRows)
            /\ \A i \in 1..Len(PreRows) :
                   now[i] = Spliced(PreRows[i], Col,
                                    [k \in 1..Len(names) |-> Part(PreRows[i][Col], sep, k)])
            /\ DOMAIN types = (DOMAIN was \ {call.args.column}) \cup Range(names)
            /\ \A x \in DOMAIN types :
                   types[x] = IF x \in Range(names) THEN TypeString ELSE was[x]

\* The first of two columns was split in two; one cell had a part for
\* each name and one cell had a single part.
C18_Witness ==
    /\ SplitColumnSucceeded
    /\ Col = 1
    /\ Len(Headers(pre, call.recv)) = 2
    /\ Len(call.args.newColumns) = 2
    /\ Len(PreRows) = 2
    /\ Len(Split(PreRows[1][Col], call.args.separator)) = 2
    /\ Len(Split(PreRows[2][Col], call.args.separator)) = 1
    /\ Len(Data(heap, call.recv)[1]) = 3

\* --------------------------------------------------------------- C19
\* The new names that are headers of the receiver.
Taken == {k \in 1..Len(call.args.newColumns) :
             call.args.newColumns[k] \in Range(Headers(pre, call.recv))}

\* C19: SplitColumn returns no table and the column-not-found error when
\* the column is absent; otherwise the no-new-columns error when the list
\* of names is empty; otherwise the column-already-exists error naming the
\* first new name that is a header, the split column's own name included;
\* and in each of these cases headers, rows and type map are as they were.
C19_SplitColumnFailures ==
    Returned("SplitColumn") =>
        /\ ~ColumnExists =>
               ret = [df |-> Nil, err |-> ErrorfColumnNotFound(call.args.column)]
        /\ (ColumnExists /\ call.args.newColumns = <<>>) =>
               ret = [df |-> Nil, err |-> ErrNoNewColumns]
        /\ (ColumnExists /\ Taken # {}) =>
               ret = [df |-> Nil,
                      err |-> ErrColumnExists(call.args.newColumns[Min(Taken)])]
        /\ (~ColumnExists \/ call.args.newColumns = <<>> \/ Taken # {}) => heap = pre
        /\ ret.err # NoErr => (~ColumnExists \/ call.args.newColumns = <<>> \/ Taken # {})

\* The only new name that is a header is the name of the split column.
C19_Witness ==
    /\ Returned("SplitColumn")
    /\ ColumnExists
    /\ Taken # {}
    /\ \A k \in Taken : call.args.newColumns[k] = call.args.column
    /\ Len(PreRows) > 0
    /\ ret.err.kind = "column already exists"

\* --------------------------------------------------------------- C20
\* The positions of the headers equal to the old name.
OldAt == {i \in 1..Len(Headers(pre, call.recv)) : Headers(pre, call.recv)[i] = call.args.column}

NewIsHeader == call.args.newName \in Range(Headers(pre, call.recv))

\* C20: RenameColumn returns no table and the column-not-found error for
\* the old name when no header equals it; otherwise the
\* column-already-exists error for the new name when a header equals it,
\* the old name included; in both cases the table is as it was.  Otherwise
\* it returns its table with the first header equal to the old name
\* replaced by the new name, every other header and every row unchanged,
\* and the type tag of the old name stored under the new name.
C20_RenameColumn ==
    Returned("RenameColumn") =>
        LET old == call.args.column
            new == call.args.newName
            was == Types(pre, call.recv)
            types == Types(heap, call.recv)
        IN  /\ OldAt = {} =>
                   /\ ret = [df |-> Nil, err |-> ErrorfColumnNotFound(old)]
                   /\ heap = pre
            /\ (OldAt # {} /\ NewIsHeader) =>
                   /\ ret = [df |-> Nil, err |-> ErrColumnExists(new)]
                   /\ heap = pre
            /\ (OldAt # {} /\ ~NewIsHeader) =>
                   /\ ret = [df |-> call.recv, err |-> NoErr]
                   /\ Headers(heap, call.recv) =
                          [Headers(pre, call.recv) EXCEPT ![Min(OldAt)] = new]
                   /\ Data(heap, call.recv) = PreRows
                   /\ heap.row = pre.row
                   /\ DOMAIN types = (DOMAIN was \ {old}) \cup {new}
                   /\ types[new] = was[old]
                   /\ \A x \in DOMAIN types \ {new} : types[x] = was[x]

\* A table with two headers of the old name was renamed and has rows.
C20_Witness ==
    /\ Returned("RenameColumn")
    /\ ret.err = NoErr
    /\ OldAt = {1, 2}
    /\ Len(PreRows) = 2
    /\ Headers(heap, call.recv)[2] = call.args.column

\* --------------------------------------------------------------- C21
\* The options applied so far.
Applied == SubSeq(call.args.options, 1, call.args.applied)

\* The last positive number of s, d when s has none.
LastPositive(s, d) ==
    LET positive == {i \in 1..Len(s) : s[i] > 0}
    IN  IF positive = {} THEN d
        ELSE s[CHOOSE i \in positive : \A k \in positive : k <= i]

\* C21: while a call applies its options, MaxWorkers is the last positive
\* number applied so far, and the default when none was positive: an
\* option with a number that is zero or negative changes nothing.
C21_WithMaxWorkers ==
    pc = "options" => call.args.MaxWorkers = LastPositive(Applied, call.args.numCPU)

\* A positive option was followed by one that is not positive.
C21_Witness ==
    /\ pc = "options"
    /\ call.args.applied = 2
    /\ call.args.options[1] = 2
    /\ call.args.options[2] <= 0
    /\ call.args.numCPU # 2
    /\ call.args.MaxWorkers = 2

\* --------------------------------------------------------------- C22
\* C22: under fair scheduling every parallel call returns to its caller,
\* whatever the worker count and the table, one without rows included: the
\* driver does not stay for ever in its sending loop or in its collecting
\* loop, and no worker stays for ever at the sending of a result.
C22_EveryCallReturns ==
    /\ (pc # "idle") ~> (pc = "idle")
    /\ \A w \in WorkerOptions :
           (w \in DOMAIN wk /\ wk[w].pc = "send") ~> ~(w \in DOMAIN wk /\ wk[w].pc = "send")

\* A call that ran two workers has returned.
C22_Witness ==
    /\ pc = "idle"
    /\ call.numWorkers = 2
    /\ resultsClosed
    /\ \A w \in DOMAIN wk : wk[w].pc = "done"

\* --------------------------------------------------------------- C23
\* Every job of the call has been taken from the jobs channel and processed,
\* its result has been taken from the results channel, and every worker has
\* left its loop.
PoolTornDown ==
    /\ sent = Len(call.jobList)
    /\ jobs = <<>>
    /\ results = <<>>
    /\ \A w \in DOMAIN wk : wk[w].pc = "done"

\* C23: when a parallel call that started workers has returned to its
\* caller, with a table or with an error, its pool is torn down: every job
\* dispatched has been processed and every worker has exited.
C23_PoolTornDownAtReturn ==
    (pc = "idle" /\ call.numWorkers > 0) => PoolTornDown

\* --------------------------------------------------------------- C24
\* The call applied its options and went on to its pool.
PoolCall == call.kind \in {"rows", "cols", "filter", "batch"} /\ call.maxWorkers > 0

\* The number of jobs of the call: its rows, its rows times its one
\* column, or its processors.
JobCount ==
    CASE call.kind \in {"rows", "filter"} -> Len(PreRows)
      [] call.kind = "cols" -> Len(PreRows) * 1
      [] call.kind = "batch" -> Len(call.args)

\* The workers that are running the processor on a job.
Processing == {w \in DOMAIN wk : wk[w].pc = "work"}

\* C24: a parallel call starts min(MaxWorkers, jobCount) workers; at no
\* time are more jobs than that being processed; no job is processed more
\* than once, and when all jobs are sent and every worker has exited every
\* job has been processed once.
C24_WorkersAndJobs ==
    PoolCall =>
        /\ Len(wk) = Min({call.maxWorkers, JobCount})
        /\ Len(call.jobList) = JobCount
        /\ Cardinality(Processing) <= Min({call.maxWorkers, JobCount})
        /\ \A q \in 1..JobCount : call.processed[q] <= 1
        /\ (sent = JobCount /\ jobs = <<>> /\ \A w \in DOMAIN wk : wk[w].pc = "done") =>
               \A q \in 1..JobCount : call.processed[q] = 1

\* Two workers were processing the two jobs of a call with MaxWorkers above
\* one at the same time.
C24_Witness ==
    /\ PoolCall
    /\ JobCount = 2
    /\ call.maxWorkers >= 2
    /\ Cardinality(Processing) = 2

\* --------------------------------------------------------------- C25
CellCall == call.kind = "cols" /\ call.maxWorkers > 0

\* Two workers are running the processor on the same row slice, hence on
\* the same cell: each reads the cell and may write it.
Race ==
    \E v, w \in DOMAIN wk :
        /\ v # w
        /\ wk[v].pc = "work" /\ wk[w].pc = "work"
        /\ wk[v].job.rowData = wk[w].job.rowData

\* The row slices of the receiver are pairwise distinct slices.
DistinctRowSlices ==
    \A i, j \in 1..Len(pre.frm[call.recv].Data) :
        i # j => pre.frm[call.recv].Data[i] # pre.frm[call.recv].Data[j]

\* Each row has exactly one job.
OneJobPerRow ==
    \A i \in 1..Len(pre.frm[call.recv].Data) :
        Cardinality({q \in 1..Len(call.jobList) : call.jobList[q].rowIdx = i - 1}) = 1

\* A step of a cell-parallel call changes a cell only when a worker that
\* holds the job of that cell runs the processor.
WritesOwnCellOnly ==
    CellCall =>
        \A a \in 1..Len(heap.row) :
            heap'.row[a] # heap.row[a] =>
                \E w \in DOMAIN wk :
                    /\ wk[w].pc = "work" /\ wk'[w].pc = "send"
                    /\ wk[w].job.rowData = a
                    /\ \A c \in 1..Len(heap.row[a]) :
                           heap'.row[a][c] # heap.row[a][c] => c = wk[w].job.colIdx + 1

\* C25: in a cell-parallel call each row has exactly one job and a worker
\* writes only the cell of the job it holds; when the rows of the table
\* are pairwise distinct slices, no two workers are at work on the same
\* row or cell at the same time.
C25_NoRaceOnDistinctRows ==
    /\ [](CellCall => OneJobPerRow)
    /\ []((CellCall /\ DistinctRowSlices) => ~Race)
    /\ [][WritesOwnCellOnly]_vars

\* Two workers are at work on the two rows of a table of distinct rows.
C25_Witness ==
    /\ CellCall
    /\ DistinctRowSlices
    /\ Len(pre.frm[call.recv].Data) = 2
    /\ \A w \in {1, 2} : w \in DOMAIN wk /\ wk[w].pc = "work"

\* C25 as stated: in every reachable state of a cell-parallel call no two
\* workers are at work on the same row or cell.
C25_Original == CellCall => ~Race

\* --------------------------------------------------------------- C26
\* C26: the outcome of BatchProcessParallel depends on the table and the
\* processors only, not on the worker count or the interleaving: it is the
\* outcome one worker gives, which takes the jobs in the order of the list.
\* That is the table of the last processor when none fails, and the error
\* of the first failing processor of the list otherwise.
C26_BatchOutcomeDeterminate ==
    BatchReturned =>
        /\ Failing = {} =>
               /\ ret.err = NoErr
               /\ Table(heap, ret.df) =
                      Table(ProcessorOutcome(Len(call.args)).h,
                            ProcessorOutcome(Len(call.args)).df)
        /\ Failing # {} =>
               /\ ret.df = Nil
               /\ ret.err = ProcessorOutcome(Min(Failing)).err

\* --------------------------------------------------------------- C27
\* The rows of the column whose cell is not empty and is not a number.
NotNumeric == {i \in 1..Len(PreRows) : PreRows[i][Col] # <<>> /\ ~ParseFloat(PreRows[i][Col]).ok}

FilterOutliersFailed == Returned("FilterOutliers") /\ ColumnExists /\ NotNumeric # {}

\* C27: when a cell of the column is neither empty nor a number,
\* FilterOutliers returns no table and the conversion error of the first
\* such cell, and the receiver has the rows it had, in the same order, rows
\* before that cell with values out of range included.
C27_FilterOutliersFailureKeepsRows ==
    FilterOutliersFailed =>
        /\ ret = [df |-> Nil, err |-> ErrConversion(PreRows[Min(NotNumeric)][Col])]
        /\ heap.frm[call.recv].Data = pre.frm[call.recv].Data
        /\ Data(heap, call.recv) = PreRows
        /\ heap = pre

\* The first row is out of range and the second is not a number.
C27_Witness ==
    /\ FilterOutliersFailed
    /\ NotNumeric = {2}
    /\ PreRows[1][Col] # <<>>
    /\ DecValue(PreRows[1][Col]) < call.args.min
    /\ Len(Data(heap, call.recv)) = 2

\* --------------------------------------------------------------- C28
\* What CleanDates makes of the table the parallel call found.
SequentialDates == CleanDates(pre, call.recv, call.args.column, call.args.layout)

\* C28: when CleanDates succeeds on a table, CleanDatesParallel on the same
\* table leaves the same cells in every row and the same type map, the
\* column tagged as a date column, whatever the interleaving.
C28_CleanDatesParallelAgrees ==
    (CleanDatesParallelReturned /\ SequentialDates.err = NoErr) =>
        /\ ret.err = NoErr
        /\ Data(heap, call.recv) = Data(SequentialDates.h, call.recv)
        /\ Types(heap, call.recv) = Types(SequentialDates.h, call.recv)
        /\ Types(heap, call.recv)[call.args.column] = TypeDate

\* --------------------------------------------------------------- C29
\* No two positions of the sequence hold the same value.
PairwiseDistinct(hs) == \A i, j \in 1..Len(hs) : i # j => hs[i] # hs[j]

\* C29: when the headers of a table are pairwise distinct, they still are
\* after a RenameColumn or a SplitColumn that succeeds, and the type map
\* then has an entry for every header and for nothing else.
C29_HeadersStayDistinct ==
    (call.op \in {"RenameColumn", "SplitColumn"} /\ pc = "idle" /\ ret.err = NoErr
        /\ PairwiseDistinct(Headers(pre, call.recv))) =>
        /\ PairwiseDistinct(Headers(heap, call.recv))
        /\ DOMAIN Types(heap, call.recv) = Range(Headers(heap, call.recv))

\* --------------------------------------------------------------- C30
InPlaceOps == {"TrimColumnsParallel", "ReplaceNullsParallel", "CleanDatesParallel",
               "NormalizeCaseParallel", "CleanWithRegexParallel"}

\* C30: FilterOutliersParallel leaves its receiver as it found it, rows and
\* their order included, and returns another table, which holds rows of the
\* receiver and has the receiver's header slice and type map; the
\* row-parallel and cell-parallel operations return the receiver itself,
\* whose row slices are the ones it had, rewritten in place.
C30_FilterReturnsNewTable ==
    /\ (Returned("FilterOutliersParallel") /\ ret.err = NoErr) =>
           /\ heap.frm[call.recv] = pre.frm[call.recv]
           /\ heap.row = pre.row /\ heap.hdr = pre.hdr /\ heap.typ = pre.typ
           /\ ret.df \notin 1..Len(pre.frm)
           /\ heap.frm[ret.df].Headers = heap.frm[call.recv].Headers
           /\ heap.frm[ret.df].Types = heap.frm[call.recv].Types
           /\ Range(heap.frm[ret.df].Data) \subseteq Range(heap.frm[call.recv].Data)
    /\ (pc = "idle" /\ call.op \in InPlaceOps /\ ret.err = NoErr) =>
           /\ ret.df = call.recv
           /\ Len(heap.frm) = Len(pre.frm)
           /\ heap.frm[call.recv].Data = pre.frm[call.recv].Data

\* The filter dropped a row of a receiver of two rows, with two workers.
C30_Witness ==
    /\ Returned("FilterOutliersParallel")
    /\ ret.err = NoErr
    /\ call.numWorkers = 2
    /\ Len(Data(heap, call.recv)) = 2
    /\ Len(Data(heap, ret.df)) = 1

====
